---- MODULE Spec2Model ----
(***************************************************************************)
(* Ashby SDK: the client's constructor, the request executor               *)
(* (AshbyClient._request), the paginator (AshbyClient._paginate), the      *)
(* generic resource, the candidates, applications, notes, files, job       *)
(* postings and interview stages resources, the survey parser and the      *)
(* entity mappers, as one sequential client talking to a server that may   *)
(* answer each request with any response.                                  *)
(***************************************************************************)
EXTENDS Integers, Sequences, FiniteSets, TLC

VARIABLES
    op,            \* the resource operation in progress ("idle" when none)
    pc,            \* its position: idle, done, raised, or a point in between
    resource,      \* the endpoint name of the resource the operation is called on
    args,          \* the operation's arguments
    request_data,  \* _paginate's private request dict
    cursor,        \* _paginate's cursor local
    items,         \* the raw items the generator has yielded so far
    job_title,     \* get_description's job_title local
    calls,         \* every request issued by the operation, with its response
    ret,           \* the operation's return value, once it returned
    error          \* the exception the operation raised, once it raised

vars == <<op, pc, resource, args, request_data, cursor, items, job_title,
          calls, ret, error>>

-----------------------------------------------------------------------------
(* Python values *)

\* Python's None, where a string is expected
None == "<None>"

\* Python's None, where an object is expected
NoneObj == [is_none |-> TRUE]

\* the empty dict {}
EmptyDict == <<>>

\* d.get(k, default)
Get(d, k, default) == IF k \in DOMAIN d THEN d[k] ELSE default

\* d[k] = v
Put(d, k, v) == (k :> v) @@ d

\* truth value of an optional string: None and "" are falsy
Truthy(v) == v # None /\ v # ""

\* str(v) of an optional string
PyStr(v) == IF v = None THEN "None" ELSE v

RECURSIVE JoinQuoted(_)
JoinQuoted(s) ==
    IF Len(s) = 0 THEN ""
    ELSE IF Len(s) = 1 THEN "'" \o s[1] \o "'"
    ELSE "'" \o s[1] \o "', " \o JoinQuoted(Tail(s))

\* str(errors) of a list of strings: "['a', 'b']"
StrList(s) == "[" \o JoinQuoted(s) \o "]"

\* a dict field that may be absent: opt is <<>> (absent) or <<value>>
Field(k, opt) == IF opt = <<>> THEN EmptyDict ELSE (k :> opt[1])

\* JSON values whose Python type the code tests or trips over: each carries
\* its type as the name of its only field
JNull == [null |-> TRUE]
JStr(s) == [str |-> s]
JBool(b) == [bool |-> b]
JObj(d) == [dict |-> d]
JList(l) == [list |-> l]

IsNull(v) == "null" \in DOMAIN v
IsStr(v) == "str" \in DOMAIN v
IsBool(v) == "bool" \in DOMAIN v
IsDict(v) == "dict" \in DOMAIN v
IsList(v) == "list" \in DOMAIN v

\* data.get(k) of a nested value: None when the key is absent
GetJ(d, k) == Get(d, k, JNull)

\* `not v` of a JSON value
Falsy(v) ==
    \/ IsNull(v)
    \/ IsStr(v) /\ v.str = ""
    \/ IsBool(v) /\ ~v.bool
    \/ IsDict(v) /\ DOMAIN v.dict = {}
    \/ IsList(v) /\ Len(v.list) = 0

-----------------------------------------------------------------------------
(* Exceptions *)

NoError == [type |-> "none"]

AshbyAuthError(message) == [type |-> "AshbyAuthError", message |-> message]

\* AshbyAPIError.__init__: self.errors = errors or []
AshbyAPIError(message, errors) ==
    [type |-> "AshbyAPIError", message |-> message, errors |-> errors]

\* requests.HTTPError raised by raise_for_status, carrying the response
HTTPError(status_code) == [type |-> "HTTPError", status_code |-> status_code]

NotImplementedError(message) ==
    [type |-> "NotImplementedError", message |-> message]

ValueError(message) == [type |-> "ValueError", message |-> message]

AshbyNotFoundError(message) ==
    [type |-> "AshbyNotFoundError", message |-> message]

\* what Python raises for v.get(...) when v is None or a str
AttributeError(message) == [type |-> "AttributeError", message |-> message]

-----------------------------------------------------------------------------
(* AshbyClient._request *)

Raised(e) == [ok |-> FALSE, error |-> e]
Returned(v) == [ok |-> TRUE, result |-> v]

\* response.raise_for_status(): raises for 4xx and 5xx
RaiseForStatus(status_code) == status_code >= 400 /\ status_code < 600

ErrorMessage_first(result) ==
    LET errors == Get(result, "errors", <<>>)
        error_info == Get(result, "errorInfo", EmptyDict)
    IN  IF "message" \in DOMAIN error_info THEN error_info["message"]
        ELSE IF Len(errors) > 0 THEN errors[1]
        ELSE "Unknown error"

\* the message of the AshbyAPIError raised for a body whose success is falsy
ErrorMessage(result) ==
    LET errors == Get(result, "errors", <<>>)
        error_info == Get(result, "errorInfo", EmptyDict)
        message == IF DOMAIN error_info # {}
                   THEN Get(error_info, "message", None)
                   ELSE StrList(errors)
    IN  "API error: " \o PyStr(message)

Request_bodyFirst(resp) ==
    LET result == resp.body IN
    IF Get(result, "success", FALSE) THEN Returned(result)
    ELSE IF resp.status = 401
    THEN Raised(AshbyAuthError("Invalid or missing API key"))
    ELSE IF resp.status = 403
    THEN Raised(AshbyAuthError(
             "API key does not have permission for this endpoint"))
    ELSE IF RaiseForStatus(resp.status) THEN Raised(HTTPError(resp.status))
    ELSE Raised(AshbyAPIError(ErrorMessage(result),
                              Get(result, "errors", <<>>)))

\* what _request does with the transport's response (status + parsed body)
Request(resp) ==
    IF resp.status = 401
    THEN Raised(AshbyAuthError("Invalid or missing API key"))
    ELSE IF resp.status = 403
    THEN Raised(AshbyAuthError(
             "API key does not have permission for this endpoint"))
    ELSE IF RaiseForStatus(resp.status) THEN Raised(HTTPError(resp.status))
    ELSE LET result == resp.body IN
         IF ~Get(result, "success", FALSE)
         THEN Raised(AshbyAPIError(ErrorMessage(result),
                                   Get(result, "errors", <<>>)))
         ELSE Returned(result)

\* one entry of the request log: what was sent, what came back, what
\* _request made of it
Call(endpoint, data, resp) ==
    [endpoint |-> endpoint, data |-> data, resp |-> resp,
     outcome |-> Request(resp)]

-----------------------------------------------------------------------------
(* Entity mappers *)

\* Source.from_dict: None for an empty (falsy) dict
SourceFromDict(data) ==
    IF DOMAIN data = {} THEN NoneObj
    ELSE [id |-> Get(data, "id", ""), name |-> Get(data, "name", ""),
          type |-> Get(data, "type", None)]

DepartmentFromDict(data) ==
    [id |-> Get(data, "id", ""), name |-> Get(data, "name", ""),
     parent_id |-> Get(data, "parentId", None)]

\* JobPosting.from_dict, the fields the resources read
JobPostingFromDict(data) ==
    [id |-> Get(data, "id", ""), title |-> Get(data, "title", ""),
     job_id |-> Get(data, "jobId", ""),
     description_plain |-> Get(data, "descriptionPlain", None),
     description_html |-> Get(data, "descriptionHtml", None),
     updated_at |-> Get(data, "updatedAt", None),
     raw_data |-> data]

\* Job.from_dict, the fields the resources read
JobFromDict(data) ==
    [id |-> Get(data, "id", ""), title |-> Get(data, "title", ""),
     status |-> Get(data, "status", ""), raw_data |-> data]

\* re.sub('<[^<]+?>', ' ', html) on the HTML descriptions the server sends
StripTags(html) ==
    CASE html = "<p>The JD</p>" -> " The JD "
      [] OTHER -> html

\* JobPosting.description
Description(posting) ==
    IF Truthy(posting.description_plain) THEN posting.description_plain
    ELSE IF Truthy(posting.description_html)
    THEN StripTags(posting.description_html)
    ELSE None

\* self._model.from_dict of a generic resource
FromDict(model, data) ==
    CASE model = "Source" -> SourceFromDict(data)
      [] model = "Department" -> DepartmentFromDict(data)
      [] model = "JobPosting" -> JobPostingFromDict(data)
      [] model = "Job" -> JobFromDict(data)

MapFromDict(model, seq) == [i \in 1..Len(seq) |-> FromDict(model, seq[i])]

-----------------------------------------------------------------------------
(* Entity mappers over nested values, which may be null or of another type *)

\* Python's None, where an int is expected
NoneInt == -1

\* a or b, of optional ints: None and 0 are falsy
OrInt(a, b) == IF a # NoneInt /\ a # 0 THEN a ELSE b

\* v.get(...) on something that is not a dict
NoGet(v) ==
    AttributeError(
        (CASE IsNull(v) -> "'NoneType'"
           [] IsStr(v) -> "'str'"
           [] IsBool(v) -> "'bool'"
           [] IsList(v) -> "'list'"
           [] OTHER -> "'dict'")
        \o " object has no attribute 'get'")

\* the first exception of a sequence of evaluations, or the value built from
\* them when none raised
FirstRaised(outs, value) ==
    IF \E i \in 1..Len(outs) : ~outs[i].ok
    THEN outs[CHOOSE i \in 1..Len(outs) :
                  /\ ~outs[i].ok
                  /\ \A j \in 1..(i - 1) : outs[j].ok]
    ELSE Returned(value)

\* EmailAddress.from_dict and PhoneNumber.from_dict: None for falsy data,
\* then data.get(...)
ContactFromDict(v) ==
    IF Falsy(v) THEN Returned(NoneObj)
    ELSE IF ~IsDict(v) THEN Raised(NoGet(v))
    ELSE Returned([value |-> Get(v.dict, "value", ""),
                   type |-> Get(v.dict, "type", ""),
                   is_primary |-> Get(v.dict, "isPrimary", FALSE)])

EmailAddressFromDict(v) == ContactFromDict(v)

PhoneNumberFromDict(v) == ContactFromDict(v)

\* File.from_handle_obj: None for falsy data, a bare handle for a str
FileFromHandleObj(v) ==
    IF Falsy(v) THEN Returned(NoneObj)
    ELSE IF IsStr(v) THEN Returned([id |-> "", name |-> "", handle |-> v.str])
    ELSE IF ~IsDict(v) THEN Raised(NoGet(v))
    ELSE Returned([id |-> Get(v.dict, "id", ""),
                   name |-> Get(v.dict, "name", ""),
                   handle |-> Get(v.dict, "handle", "")])

\* Candidate.from_dict: resume_file first, then the keyword arguments in order
CandidateFromDict(data) ==
    LET resume_file == FileFromHandleObj(GetJ(data, "resumeFileHandle"))
        primary_email == EmailAddressFromDict(GetJ(data, "primaryEmailAddress"))
        primary_phone == PhoneNumberFromDict(GetJ(data, "primaryPhoneNumber"))
    IN  FirstRaised(<<resume_file, primary_email, primary_phone>>,
            [id |-> Get(data, "id", ""),
             name |-> Get(data, "name", ""),
             primary_email |-> primary_email.result,
             primary_phone |-> primary_phone.result,
             resume_file |-> resume_file.result,
             raw_data |-> data])

\* [Candidate.from_dict(c) for c in results]
RECURSIVE MapCandidates(_)
MapCandidates(results) ==
    IF Len(results) = 0 THEN Returned(<<>>)
    ELSE LET head == CandidateFromDict(results[1])
             tail == MapCandidates(Tail(results))
         IN  FirstRaised(<<head, tail>>, <<head.result>> \o tail.result)

\* InterviewStage.from_dict of a non-empty dict, the fields the resources
\* read
InterviewStageOf(data) ==
    [id |-> Get(data, "id", ""),
     name |-> IF Get(data, "title", "") # "" THEN data["title"]
              ELSE Get(data, "name", ""),
     order_in_stage_group |->
         OrInt(Get(data, "orderInStageGroup", NoneInt),
               Get(data, "orderInInterviewPlan", NoneInt)),
     interview_plan_id |-> Get(data, "interviewPlanId", None),
     raw_data |-> data]

\* InterviewStage.from_dict of a nested value: None for falsy data
InterviewStageFromDict(v) ==
    IF Falsy(v) THEN Returned(NoneObj)
    ELSE IF ~IsDict(v) THEN Raised(NoGet(v))
    ELSE Returned(InterviewStageOf(v.dict))

\* Source.from_dict of a nested value
NestedSourceFromDict(v) ==
    IF Falsy(v) THEN Returned(NoneObj)
    ELSE IF ~IsDict(v) THEN Raised(NoGet(v))
    ELSE Returned(SourceFromDict(v.dict))

\* ApplicationFormSubmission.from_dict: None for falsy data
ApplicationFormSubmissionFromDict(v) ==
    IF Falsy(v) THEN Returned(NoneObj)
    ELSE IF ~IsDict(v) THEN Raised(NoGet(v))
    ELSE Returned([id |-> Get(v.dict, "id", ""), raw_data |-> v.dict])

\* User.from_dict(data["creditedTo"]) if data.get("creditedTo") else None
CreditedTo(v) ==
    IF Falsy(v) THEN Returned(NoneObj)
    ELSE IF ~IsDict(v) THEN Raised(NoGet(v))
    ELSE Returned([id |-> Get(v.dict, "id", ""),
                   first_name |-> Get(v.dict, "firstName", ""),
                   last_name |-> Get(v.dict, "lastName", ""),
                   email |-> Get(v.dict, "email", "")])

\* candidate_data = data.get("candidate", {}); candidate_data.get("id", "")
\* and candidate_data.get("name", "")
CandidateData(data) ==
    LET candidate_data == Get(data, "candidate", JObj(EmptyDict)) IN
    IF ~IsDict(candidate_data) THEN Raised(NoGet(candidate_data))
    ELSE Returned([id |-> Get(candidate_data.dict, "id", ""),
                   name |-> Get(candidate_data.dict, "name", "")])

\* Application.from_dict: the keyword arguments are evaluated in order; the
\* candidate attribute is not set from data and keeps its default
ApplicationFromDict(data) ==
    LET candidate_data == CandidateData(data)
        current_stage == InterviewStageFromDict(
                             GetJ(data, "currentInterviewStage"))
        source == NestedSourceFromDict(GetJ(data, "source"))
        form_submission == ApplicationFormSubmissionFromDict(
                               GetJ(data, "applicationFormSubmission"))
        credited_to == CreditedTo(GetJ(data, "creditedTo"))
    IN  FirstRaised(<<candidate_data, current_stage, source, form_submission,
                      credited_to>>,
            [id |-> Get(data, "id", ""),
             status |-> Get(data, "status", ""),
             candidate_id |-> candidate_data.result.id,
             candidate_name |-> candidate_data.result.name,
             job_id |-> Get(data, "jobId", ""),
             current_stage |-> current_stage.result,
             source |-> source.result,
             form_submission |-> form_submission.result,
             credited_to |-> credited_to.result,
             candidate |-> NoneObj,
             raw_data |-> data])

\* Note.from_dict: author is User.from_dict(data["author"]) if
\* data.get("author") else None
NoteFromDict(data) ==
    LET author == CreditedTo(GetJ(data, "author")) IN
    FirstRaised(<<author>>,
        [id |-> Get(data, "id", ""),
         content |-> Get(data, "content", ""),
         content_type |-> Get(data, "type", "text/plain"),
         created_at |-> Get(data, "createdAt", None),
         author |-> author.result,
         raw_data |-> data])

HiringTeamRoleFromDict_strAsId(v) ==
    IF IsStr(v) THEN Returned([name |-> "", id |-> v.str, raw_data |-> EmptyDict])
    ELSE IF ~IsDict(v) THEN Raised(NoGet(v))
    ELSE Returned([id |-> Get(v.dict, "id", ""),
                   name |-> Get(v.dict, "name", ""),
                   raw_data |-> v.dict])

\* HiringTeamRole.from_dict: a bare str is the role's name
HiringTeamRoleFromDict(v) ==
    IF IsStr(v) THEN Returned([name |-> v.str, id |-> "", raw_data |-> EmptyDict])
    ELSE IF ~IsDict(v) THEN Raised(NoGet(v))
    ELSE Returned([id |-> Get(v.dict, "id", ""),
                   name |-> IF Get(v.dict, "name", "") # ""
                            THEN v.dict["name"]
                            ELSE Get(v.dict, "title", ""),
                   raw_data |-> v.dict])

-----------------------------------------------------------------------------
(* Generic resources: GenericResource(client, endpoint, model, supports_get) *)

\* the two generic resources of the class's usage notes: sources (list-only)
\* and departments (list and get)
Descriptors ==
    [source |-> [model |-> "Source", supports_get |-> FALSE],
     department |-> [model |-> "Department", supports_get |-> TRUE]]

Resources == DOMAIN Descriptors

\* self._model
ModelOf(r) == Descriptors[r].model

SupportsGet_all(r) == TRUE

\* self._supports_get
SupportsGet(r) == Descriptors[r].supports_get

\* self._id_param = id_param or f"{endpoint}Id"
IdParam(r) == r \o "Id"

-----------------------------------------------------------------------------
(* The server: what a request may be answered with *)

SrcA == [id |-> "src_1", name |-> "LinkedIn", type |-> "Sourcing"]
SrcB == [id |-> "src_2", name |-> "Referral"]
DeptA == [id |-> "dept_1", name |-> "Engineering", parentId |-> "dept_0"]
DeptB == [id |-> "dept_2", name |-> "Sales"]

Posting1 == [id |-> "p1", title |-> "Customer Success Manager",
             jobId |-> "job-1", updatedAt |-> "2026-01-01T00:00:00Z"]
Posting2 == [id |-> "p2", title |-> "Key Account Manager",
             jobId |-> "job-1", updatedAt |-> "2026-01-02T00:00:00Z"]
Posting3 == [id |-> "p3", title |-> "Engineer", jobId |-> "job-2"]

CandA == [id |-> "cand_1", name |-> "John Doe"]
CandB == [id |-> "cand_2", name |-> "Jane Smith",
          primaryEmailAddress |->
              JObj([value |-> "jane@example.com", type |-> "Work"])]

\* the result lists a list endpoint may put in one page
Pages(endpoint) ==
    CASE endpoint = "source.list" -> {<<SrcA>>, <<SrcB, EmptyDict>>}
      [] endpoint = "department.list" -> {<<DeptA>>, <<DeptB, DeptA>>}
      [] endpoint = "jobPosting.list" -> {<<Posting1>>, <<Posting2, Posting3>>}
      [] endpoint = "candidate.search" -> {<<CandA>>, <<CandB, CandA>>}

\* the objects an info endpoint may return as results
Objects(endpoint) ==
    CASE endpoint = "department.info" -> {DeptA, DeptB}
      [] endpoint = "source.info" -> {SrcA}
      [] endpoint = "job.info" ->
            {[id |-> "job-1", title |-> "Key Account Manager",
              status |-> "Open"],
             [id |-> "job-1", status |-> "Open"]}
      [] endpoint = "jobPosting.info" ->
            {Posting1 @@ [descriptionPlain |-> "The KAM JD"],
             Posting2 @@ [descriptionHtml |-> "<p>The JD</p>"],
             Posting3}

Cursors == {"", "cursor_1", "cursor_2"}

Opt(S) == {<<>>} \cup {<<v>> : v \in S}

\* 2xx pages of a list endpoint: results, moreDataAvailable and nextCursor
\* each present or absent
OkPages(endpoint) ==
    {[status |-> 200,
      body |-> [success |-> TRUE] @@ Field("results", r)
               @@ Field("moreDataAvailable", m) @@ Field("nextCursor", c)] :
        r \in Opt(Pages(endpoint)), m \in Opt(BOOLEAN), c \in Opt(Cursors)}

\* single-object answers of an info endpoint
OkObjects(endpoint) ==
    {[status |-> 200, body |-> [success |-> TRUE] @@ Field("results", r)] :
        r \in Opt(Objects(endpoint))}

\* answers for which _request raises
Failures ==
    {[status |-> 401, body |-> EmptyDict],
     [status |-> 403, body |-> EmptyDict],
     [status |-> 500, body |-> EmptyDict],
     [status |-> 200,
      body |-> [success |-> FALSE, errors |-> <<"invalid_request">>,
                errorInfo |-> [message |-> "Invalid request"]]]}

ListResponses(endpoint) == OkPages(endpoint) \cup Failures

InfoResponses(endpoint) == OkObjects(endpoint) \cup Failures

-----------------------------------------------------------------------------
(* Bounds and inputs *)

\* requests one operation may issue before the model stops following it
MaxRequests == 3

\* limit's default in every list() signature
DefaultLimit == 100

Limits == {1, DefaultLimit}

\* **filters of GenericResource.list: names the API filters by, other than
\* the paginator's own limit and cursor
FilterSets ==
    {EmptyDict,
     [includeArchived |-> None],
     [includeArchived |-> "", syncToken |-> None],
     [includeArchived |-> "true", syncToken |-> "tok"]}

Ids == {"dept_1", "src_1"}

JobIds == {"job-1", "job-2"}

\* search's email and name arguments: omitted, empty, given
Emails == {None, "", "john@example.com"}
Names == {None, "John"}

\* entries one submission's submittedValues may hold
MaxSubmitted == 2

\* the fields a form definition may declare: a question, the email system
\* field declared as a question, another system field declared as a question
FormFields ==
    <<[id |-> "f1", title |-> "Remote OK?", path |-> "f1"],
      [id |-> "f3", title |-> "Contact email", path |-> "_systemfield_email"],
      [id |-> "f4", title |-> "Location", path |-> "_systemfield_location"]>>

\* form definitions: any selection of FormFields, in that order
FormDefinitions ==
    {SelectSeq(FormFields, LAMBDA f : f.id \in ids) :
        ids \in SUBSET {"f1", "f3", "f4"}}

SubmittedKeys ==
    {"f1", "f4", "_systemfield_email", "_systemfield_location",
     "_systemfield_name", "other"}

SubmittedValues ==
    {JStr("2 weeks"), JBool(TRUE), JBool(FALSE),
     JObj([text |-> JStr("Berlin"), name |-> JStr("berlin-1")]),
     JObj([name |-> JStr("Python")]),
     JList(<<JStr("Python"), JObj([name |-> JStr("Go")])>>),
     JList(<<JObj([id |-> JStr("opt-1")]), JBool(TRUE)>>)}

\* the items of a submittedValues dict of up to n entries: distinct keys
SubmittedItems(n) ==
    UNION {{s \in [1..k -> [key : SubmittedKeys, value : SubmittedValues]] :
               \A i, j \in 1..k : i # j => s[i].key # s[j].key} :
           k \in 0..n}

\* submissions of up to n submitted values
Submissions(n) ==
    {[candidateId |-> "cand-123", formDefinition |-> f,
      submittedValues |-> v] :
        f \in FormDefinitions, v \in SubmittedItems(n)}

\* what the server sends as a hiring team role: a bare name, or an object
RoleData ==
    {JStr("Recruiter"), JStr(""),
     JObj([name |-> "Recruiter", id |-> "r1"]),
     JObj([name |-> "", id |-> "r2"]),
     JObj([title |-> "Hiring Manager", id |-> "r3"]),
     JObj(EmptyDict)}

\* a nested object as the server may send it: absent, null, the object, or
\* something of another type
Nested(obj, other) == {<<>>, <<JNull>>, <<JObj(obj)>>, <<other>>}

ApplicationData ==
    {[id |-> "app-123", status |-> "Active", jobId |-> "job-1"]
        @@ Field("candidate", c) @@ Field("currentInterviewStage", st)
        @@ Field("source", so) @@ Field("applicationFormSubmission", f)
        @@ Field("creditedTo", u) :
        c \in Nested([id |-> "cand-1", name |-> "John Doe"], JStr("cand-1")),
        st \in Nested([id |-> "stage-1", name |-> "Phone Screen"],
                      JStr("stage-1")),
        so \in Nested(SrcA, JStr("LinkedIn")),
        f \in Nested([id |-> "form-1"], JStr("form-1")),
        u \in Nested([id |-> "user-1", firstName |-> "Ada"],
                     JStr("user-1"))}

CandidateData_inputs ==
    {[id |-> "cand-123", name |-> "Jane Smith"]
        @@ Field("primaryEmailAddress", m) @@ Field("primaryPhoneNumber", ph)
        @@ Field("resumeFileHandle", r) :
        m \in Nested([value |-> "jane@example.com", type |-> "Work"],
                     JStr("jane@example.com")),
        ph \in Nested([value |-> "+1234567890", type |-> "Mobile"],
                      JStr("+1234567890")),
        r \in Nested([id |-> "file-1", name |-> "resume.pdf",
                      handle |-> "abc123"], JList(<<"abc123">>))
              \cup {<<JStr("abc123")>>}}

\* arguments of the write operations
ApplicationIds == {"app-123"}
StageIds == {"stage-1", "stage-2"}
ArchiveReasonIds == {"reason-1", "reason-2"}
CandidateIds == {"cand-123"}
TagIds == {"tag-1", "tag-2"}
NoteTexts == {"Great candidate!", ""}
NoteTypes == {"text/plain", "text/html"}

\* the application as the server may send it after a write: in either stage
\* or none, archived or not, the candidate present, null or absent
WrittenApplications ==
    {[id |-> "app-123", status |-> s, jobId |-> "job-1"]
        @@ Field("candidate", c) @@ Field("currentInterviewStage", st) :
        s \in {"Active", "Archived"},
        c \in Nested([id |-> "cand-1", name |-> "John Doe"], JStr("cand-1")),
        st \in {<<>>, <<JNull>>,
                <<JObj([id |-> "stage-1", title |-> "Phone Screen"])>>,
                <<JObj([id |-> "stage-2", title |-> "Onsite"])>>}}

\* the note as the server may send it after candidate.createNote
WrittenNotes ==
    {[id |-> "note-1", content |-> t] @@ Field("type", ty)
        @@ Field("author", a) :
        t \in {"Great candidate!", "<p>Great candidate!</p>"},
        ty \in Opt(NoteTypes),
        a \in Nested([id |-> "user-1", firstName |-> "Ada"], JStr("user-1"))}

\* answers to a write request: the object after the write, or nothing, or a
\* failure
WriteResponses(objects) ==
    {[status |-> 200, body |-> [success |-> TRUE] @@ Field("results", r)] :
        r \in Opt(objects)}
    \cup Failures

\* the data mapping a caller may pass to _paginate: empty, a filter, a
\* mapping that has a limit of its own
ParameterMappings ==
    {EmptyDict,
     [jobId |-> "job-1"],
     [limit |-> 5, includeArchived |-> "true"]}

\* download's file_handle argument
FileHandles == {"abc123", "def456"}

\* what file.info may return as results: null, an object with a url, with an
\* empty url, without url
FileInfos ==
    {JNull,
     JObj([url |-> "https://files.example/abc123?sig=1"]),
     JObj([url |-> "https://files.example/def456?sig=2"]),
     JObj([url |-> ""]),
     JObj(EmptyDict)}

FileInfoResponses ==
    {[status |-> 200, body |-> [success |-> TRUE] @@ Field("results", r)] :
        r \in Opt(FileInfos)}
    \cup Failures

\* content-disposition values, as the sequence of their parts:
\* attachment
\* attachment; filename="resume.pdf"
\* attachment; filename=resume.pdf
\* attachment; filename="resume.pdf"; size=1024
\* attachment; filename="resume.pdf"; filename*=UTF-8''resume.pdf
ContentDispositions ==
    {<<"attachment">>,
     <<"attachment", "; ", "filename=", "\"", "resume.pdf", "\"">>,
     <<"attachment", "; ", "filename=", "resume.pdf">>,
     <<"attachment", "; ", "filename=", "\"", "resume.pdf", "\"", "; ",
       "size=1024">>,
     <<"attachment", "; ", "filename=", "\"", "resume.pdf", "\"", "; ",
       "filename*=UTF-8''resume.pdf">>}

\* what the GET of the signed URL may be answered with
GetResponses ==
    {[status |-> st, headers |-> Field("content-disposition", h),
      content |-> c] :
        st \in {200, 403, 404}, h \in Opt(ContentDispositions),
        c \in {"%PDF-1.4", ""}}

\* the api_key argument of AshbyClient: omitted, empty, given
ApiKeys == {None, "", "test-key"}

\* os.getenv("ASHBY_API_KEY"): unset, empty, set
EnvKeys == {None, "", "env-key"}

\* get_for_job's job_title argument: omitted, empty, given
JobTitles == {None, "", "Key Account Manager"}

\* postings one jobPosting.list page may hold
MaxPostings == 3

\* stages one interviewStage.list page may hold
MaxStages == 3

\* the jobs job.info may return to list_for_job: with a default plan, with
\* plan ids only, with neither, with an empty default and no plan ids
StageJobs ==
    {[id |-> "job-1", defaultInterviewPlanId |-> "plan-1",
      interviewPlanIds |-> <<"plan-2">>],
     [id |-> "job-1", interviewPlanIds |-> <<"plan-2", "plan-3">>],
     [id |-> "job-1"],
     [id |-> "job-1", defaultInterviewPlanId |-> "",
      interviewPlanIds |-> <<>>]}

StageJobResponses ==
    {[status |-> 200, body |-> [success |-> TRUE] @@ Field("results", r)] :
        r \in Opt(StageJobs)}
    \cup Failures

\* what the stage with this id may look like: orderInStageGroup absent, null
\* or a number, orderInInterviewPlan absent or a number; or an empty object
StageVariants(id) ==
    {[id |-> id, title |-> "Stage"],
     [id |-> id, title |-> "Stage", orderInInterviewPlan |-> 3],
     EmptyDict}
    \cup {[id |-> id, title |-> "Stage", orderInStageGroup |-> g] :
            g \in {NoneInt, 1, 2}}
    \cup {[id |-> id, title |-> "Stage", orderInStageGroup |-> g,
           orderInInterviewPlan |-> 3] : g \in {NoneInt, 1, 2}}

\* listings of exactly n stages, the i-th with id "s<i>"
RECURSIVE StageListingsOf(_)
StageListingsOf(n) ==
    IF n = 0 THEN {<<>>}
    ELSE {Append(l, st) : l \in StageListingsOf(n - 1),
                          st \in StageVariants("s" \o ToString(n))}

\* listings of up to n stages
StageListings(n) == UNION {StageListingsOf(k) : k \in 0..n}

\* answers to interviewStage.list that hold the whole listing, of up to n
\* stages, in one page
StageListResponses(n) ==
    {[status |-> 200,
      body |-> [success |-> TRUE, results |-> l,
                moreDataAvailable |-> FALSE]] :
        l \in StageListings(n)}
    \cup Failures

PostingTimes == {"2026-01-01T00:00:00Z", "2026-01-02T00:00:00Z"}

\* what the posting with this id may look like: a posting of job-1 with
\* either title, with or without updatedAt, or a posting of job-2 with the
\* title asked for and the latest update
PostingVariants(id) ==
    {[id |-> id, title |-> t, jobId |-> "job-1"] :
        t \in {"Engineer", "Key Account Manager"}}
    \cup {[id |-> id, title |-> t, jobId |-> "job-1", updatedAt |-> u] :
        t \in {"Engineer", "Key Account Manager"}, u \in PostingTimes}
    \cup {[id |-> id, title |-> "Key Account Manager", jobId |-> "job-2",
           updatedAt |-> "2026-01-02T00:00:00Z"]}

\* listings of exactly n postings, the i-th with id "p<i>"
RECURSIVE PostingListingsOf(_)
PostingListingsOf(n) ==
    IF n = 0 THEN {<<>>}
    ELSE {Append(l, p) : l \in PostingListingsOf(n - 1),
                         p \in PostingVariants("p" \o ToString(n))}

\* listings of up to n postings
PostingListings(n) == UNION {PostingListingsOf(k) : k \in 0..n}

\* answers to jobPosting.list that hold the whole listing, of up to n
\* postings, in one page
PostingListResponses(n) ==
    {[status |-> 200,
      body |-> [success |-> TRUE, results |-> l,
                moreDataAvailable |-> FALSE]] :
        l \in PostingListings(n)}
    \cup Failures

NoReturn == [returned |-> FALSE]
Return(v) == [returned |-> TRUE, value |-> v]

\* HTTP statuses the transport may hand to _request
Statuses == {200, 201, 304, 400, 401, 403, 404, 429, 500}

\* parsed bodies the transport may hand to _request
Bodies ==
    {Field("success", s) @@ Field("results", r) @@ Field("errors", e)
     @@ Field("errorInfo", i) :
        s \in Opt(BOOLEAN),
        r \in Opt({<<SrcA>>}),
        e \in Opt({<<>>, <<"invalid_request">>,
                   <<"invalid_request", "bad_cursor">>}),
        i \in Opt({EmptyDict, [message |-> "Invalid request"],
                   [code |-> "E42"]})}

Responses == {[status |-> st, body |-> b] : st \in Statuses, b \in Bodies}

-----------------------------------------------------------------------------
(* AshbyClient._paginate *)

\* request_data = data.copy() if data else {}; request_data["limit"] = limit
PaginateData(data, limit) == Put(data, "limit", limit)

\* if cursor: request_data["cursor"] = cursor
WithCursor(data, c) == IF Truthy(c) THEN Put(data, "cursor", c) ELSE data

MoreData_orCursor(response) ==
    Get(response, "moreDataAvailable", FALSE) \/ "nextCursor" \in DOMAIN response

Yielded_lastPage(its, response) == Get(response, "results", <<>>)

\* for item in response.get("results", []): yield item
Yielded(its, response) == its \o Get(response, "results", <<>>)

\* response.get("moreDataAvailable", False)
MoreData(response) == Get(response, "moreDataAvailable", FALSE)

\* cursor = response.get("nextCursor")
NextCursor(response) == Get(response, "nextCursor", None)

-----------------------------------------------------------------------------
(* JobPostingsResource: filtering and choosing among the listed postings *)

PostingsForJob_unfiltered(all_postings, job_id) == all_postings

PostingsForJob_none(all_postings, job_id) == <<>>

\* JobPostingsResource.list: the client-side filter on job_id
PostingsForJob(all_postings, job_id) ==
    IF Truthy(job_id)
    THEN SelectSeq(all_postings, LAMBDA p : p.job_id = job_id)
    ELSE all_postings

\* the sort key of get_for_job, p.updated_at or "", as its rank in Python's
\* string order among the timestamps the server sends
SortKey(p) ==
    CASE p.updated_at = "2026-01-01T00:00:00Z" -> 1
      [] p.updated_at = "2026-01-02T00:00:00Z" -> 2
      [] OTHER -> 0

NewestFirst_lastListed(postings) ==
    LET i == CHOOSE i \in 1..Len(postings) :
                 \A j \in 1..Len(postings) :
                     /\ SortKey(postings[j]) <= SortKey(postings[i])
                     /\ SortKey(postings[j]) = SortKey(postings[i]) => j <= i
    IN  postings[i]

\* postings.sort(key=..., reverse=True); postings[0]: the greatest key, the
\* first in listing order among equals (the sort is stable)
NewestFirst(postings) ==
    LET i == CHOOSE i \in 1..Len(postings) :
                 \A j \in 1..Len(postings) :
                     /\ SortKey(postings[j]) <= SortKey(postings[i])
                     /\ SortKey(postings[j]) = SortKey(postings[i]) => i <= j
    IN  postings[i]

BestPosting_newest(postings, title) ==
    IF Len(postings) = 1 THEN postings[1] ELSE NewestFirst(postings)

\* get_for_job's choice among the postings of the job
BestPosting(postings, title) ==
    IF Len(postings) = 1 THEN postings[1]
    ELSE IF Truthy(title) /\ \E i \in 1..Len(postings) : postings[i].title = title
    THEN postings[CHOOSE i \in 1..Len(postings) :
                      /\ postings[i].title = title
                      /\ \A j \in 1..(i - 1) : postings[j].title # title]
    ELSE NewestFirst(postings)

-----------------------------------------------------------------------------
(* InterviewStagesResource: collecting and ordering the listed stages *)

\* InterviewStagesResource.list's loop: stage = InterviewStage.from_dict(s);
\* if stage: stages.append(stage)
StagesOf(its) ==
    LET kept == SelectSeq(its, LAMBDA d : DOMAIN d # {})
    IN  [i \in 1..Len(kept) |-> InterviewStageOf(kept[i])]

\* key=lambda s: s.order_in_stage_group or 0
OrderKey(stage) == OrInt(stage.order_in_stage_group, 0)

SortedByOrder_unsorted(stages) == stages

\* sorted(stages, key=...): ascending, equal keys keeping their order
RECURSIVE SortedByOrder(_)
SortedByOrder(stages) ==
    IF Len(stages) = 0 THEN <<>>
    ELSE LET rest == SortedByOrder(SubSeq(stages, 1, Len(stages) - 1))
             x == stages[Len(stages)]
             k == Cardinality({i \in 1..Len(rest) :
                                  OrderKey(rest[i]) <= OrderKey(x)})
         IN  SubSeq(rest, 1, k) \o <<x>> \o SubSeq(rest, k + 1, Len(rest))

PlanId_firstAssociated(job_data) ==
    LET plan_id == Get(job_data, "defaultInterviewPlanId", None)
        plan_ids == Get(job_data, "interviewPlanIds", <<>>)
    IN  IF Len(plan_ids) > 0 THEN plan_ids[1] ELSE plan_id

\* list_for_job's choice of the interview plan: the default plan, else the
\* first of interviewPlanIds, else none
PlanId(job_data) ==
    LET plan_id == Get(job_data, "defaultInterviewPlanId", None)
        plan_ids == Get(job_data, "interviewPlanIds", <<>>)
    IN  IF Truthy(plan_id) THEN plan_id
        ELSE IF Len(plan_ids) > 0 THEN plan_ids[1]
        ELSE plan_id

-----------------------------------------------------------------------------
(* The consumers of the paginator *)

\* the caller of a finished generator: the list comprehension of
\* GenericResource.list, the filter of JobPostingsResource.list, the sort of
\* list_for_job, or get_for_job's selection
Exhausted(its) ==
    IF op = "list"
    THEN /\ pc' = "done"
         /\ ret' = Return(MapFromDict(ModelOf(resource), its))
    ELSE IF op = "job_postings.list"
    THEN /\ pc' = "done"
         /\ ret' = Return(PostingsForJob(MapFromDict("JobPosting", its),
                                         args.job_id))
    ELSE IF op = "list_for_job"
    THEN /\ pc' = "done"
         /\ ret' = Return(SortedByOrder(StagesOf(its)))
    ELSE /\ pc' = "select"
         /\ ret' = ret

AfterRequest_truncate(out) ==
    IF ~out.ok
    THEN /\ Exhausted(items)
         /\ UNCHANGED <<items, cursor, error>>
    ELSE /\ items' = Yielded(items, out.result)
         /\ error' = error
         /\ IF ~MoreData(out.result)
            THEN Exhausted(items') /\ cursor' = cursor
            ELSE /\ cursor' = NextCursor(out.result)
                 /\ UNCHANGED <<pc, ret>>

\* the loop body after self._request: an exception leaves the generator and
\* its consumer; otherwise the items are yielded and the loop ends or goes on
AfterRequest(out) ==
    IF ~out.ok
    THEN /\ pc' = "raised"
         /\ error' = out.error
         /\ UNCHANGED <<items, cursor, ret>>
    ELSE /\ items' = Yielded(items, out.result)
         /\ error' = error
         /\ IF ~MoreData(out.result)
            THEN Exhausted(items') /\ cursor' = cursor
            ELSE /\ cursor' = NextCursor(out.result)
                 /\ UNCHANGED <<pc, ret>>

\* the endpoint the pagination in progress lists
ListEndpoint ==
    CASE op = "list" -> resource \o ".list"
      [] op = "_paginate" -> args.endpoint
      [] op = "list_for_job" -> "interviewStage.list"
      [] OTHER -> "jobPosting.list"

\* what the server may answer a direct caller of _paginate with: pages of
\* every shape, under one cursor name
GeneratorResponses ==
    {resp \in ListResponses("source.list") :
        Get(resp.body, "nextCursor", None) # "cursor_2"}

\* what the server may answer the pagination in progress with: the whole
\* listing in one page to get_for_job and list_for_job, pages of every shape
\* to the other operations
PageResponses ==
    CASE op = "get_for_job" -> PostingListResponses(MaxPostings)
      [] op = "list_for_job" -> StageListResponses(MaxStages)
      [] op = "_paginate" -> GeneratorResponses
      [] OTHER -> ListResponses(ListEndpoint)

\* one iteration of _paginate's while loop
PaginateStep ==
    /\ pc = "paginate"
    /\ Len(calls) < MaxRequests
    /\ \E resp \in PageResponses :
         LET data == WithCursor(request_data, cursor) IN
         /\ request_data' = data
         /\ calls' = Append(calls, Call(ListEndpoint, data, resp))
         /\ AfterRequest(Request(resp))
    /\ UNCHANGED <<op, resource, args, job_title>>

-----------------------------------------------------------------------------
(* AshbyClient._paginate as the generator it is, one step at a time: pc is   *)
(* created (the generator object exists, its body has not run), loop (at the *)
(* top of the while loop), in_flight (inside self._request), for (in the for *)
(* loop over the page), suspended (at the yield), done or raised             *)

CallersData_shared(data, written) == written

\* the caller's mapping after a write to request_data: request_data is
\* data.copy() or a new {}, a dict of its own, so the caller's is untouched
CallersData(data, written) == data

\* the number of items in the first n responses
RECURSIVE ReceivedItems(_)
ReceivedItems(n) ==
    IF n = 0 THEN 0
    ELSE ReceivedItems(n - 1) + Len(Get(calls[n].resp.body, "results", <<>>))

\* response.get("results", []) of the response the for loop runs over
Page == Get(calls[Len(calls)].outcome.result, "results", <<>>)

\* how many items of the page the for loop has yielded
Position == Len(items) - ReceivedItems(Len(calls) - 1)

Remaining_none(page, position) == <<>>

\* the items of the page the for loop has yet to yield
Remaining(page, position) == SubSeq(page, position + 1, Len(page))

\* client._paginate(endpoint, data, limit): the call returns a generator
\* object and runs none of the body
PaginateCall ==
    /\ pc = "idle"
    /\ \E data \in ParameterMappings, limit \in {DefaultLimit} :
         args' = [endpoint |-> "source.list", data |-> data, passed |-> data,
                  limit |-> limit, again |-> FALSE]
    /\ op' = "_paginate"
    /\ resource' = "source"
    /\ pc' = "created"
    /\ UNCHANGED <<request_data, cursor, items, job_title, calls, ret, error>>

\* the caller, its first pagination over, calls _paginate once more with the
\* mapping it still holds
PaginateAgain ==
    /\ op = "_paginate"
    /\ pc \in {"done", "raised"}
    /\ ~args.again
    /\ args' = [args EXCEPT !.again = TRUE]
    /\ pc' = "created"
    /\ request_data' = EmptyDict
    /\ cursor' = None
    /\ items' = <<>>
    /\ calls' = <<>>
    /\ ret' = NoReturn
    /\ error' = NoError
    /\ UNCHANGED <<op, resource, job_title>>

\* next(generator): the first one runs the body up to the while loop, a
\* later one resumes the for loop after the yield
Demand ==
    /\ op = "_paginate"
    /\ pc \in {"created", "suspended"}
    /\ IF pc = "created"
       THEN /\ request_data' = PaginateData(args.data, args.limit)
            /\ cursor' = None
            /\ args' = [args EXCEPT
                           !.data = CallersData(args.data, request_data')]
            /\ pc' = "loop"
       ELSE /\ pc' = "for"
            /\ UNCHANGED <<request_data, cursor, args>>
    /\ UNCHANGED <<op, resource, items, job_title, calls, ret, error>>

\* if cursor: request_data["cursor"] = cursor; self._request(...) is entered
Send ==
    /\ op = "_paginate"
    /\ pc = "loop"
    /\ Len(calls) < MaxRequests
    /\ request_data' = WithCursor(request_data, cursor)
    /\ args' = [args EXCEPT !.data = CallersData(args.data, request_data')]
    /\ pc' = "in_flight"
    /\ UNCHANGED <<op, resource, cursor, items, job_title, calls, ret, error>>

\* self._request(...) returns the response or raises
Receive ==
    /\ op = "_paginate"
    /\ pc = "in_flight"
    /\ \E resp \in PageResponses :
         LET out == Request(resp) IN
         /\ calls' = Append(calls, Call(ListEndpoint, request_data, resp))
         /\ IF out.ok
            THEN pc' = "for" /\ error' = error
            ELSE pc' = "raised" /\ error' = out.error
    /\ UNCHANGED <<op, resource, args, request_data, cursor, items, job_title,
                   ret>>

\* for item in response.get("results", []): yield item
YieldItem ==
    /\ op = "_paginate"
    /\ pc = "for"
    /\ Remaining(Page, Position) # <<>>
    /\ items' = Append(items, Remaining(Page, Position)[1])
    /\ pc' = "suspended"
    /\ UNCHANGED <<op, resource, args, request_data, cursor, job_title, calls,
                   ret, error>>

\* the for loop is over: break when no more data is declared, else take the
\* next cursor and go round the while loop
PageEnd ==
    /\ op = "_paginate"
    /\ pc = "for"
    /\ Remaining(Page, Position) = <<>>
    /\ LET response == calls[Len(calls)].outcome.result IN
       IF ~MoreData(response)
       THEN /\ pc' = "done"
            /\ ret' = Return(items)
            /\ cursor' = cursor
       ELSE /\ cursor' = NextCursor(response)
            /\ pc' = "loop"
            /\ ret' = ret
    /\ UNCHANGED <<op, resource, args, request_data, items, job_title, calls,
                   error>>

-----------------------------------------------------------------------------
(* GenericResource *)

FilterData_truthy(filters) ==
    [k \in {x \in DOMAIN filters : Truthy(filters[x])} |-> filters[k]]

\* data = {k: v for k, v in filters.items() if v is not None}
FilterData(filters) ==
    [k \in {x \in DOMAIN filters : filters[x] # None} |-> filters[k]]

\* GenericResource.list(limit, **filters), up to the first request
GenericList ==
    /\ pc = "idle"
    /\ \E r \in Resources, limit \in Limits, filters \in FilterSets :
         /\ op' = "list"
         /\ resource' = r
         /\ args' = [limit |-> limit, filters |-> filters]
         /\ request_data' = PaginateData(FilterData(filters), limit)
    /\ cursor' = None
    /\ items' = <<>>
    /\ pc' = "paginate"
    /\ UNCHANGED <<job_title, calls, ret, error>>

\* GenericResource.get(id)
GenericGet ==
    /\ pc = "idle"
    /\ \E r \in Resources, id \in Ids :
         /\ op' = "get"
         /\ resource' = r
         /\ args' = [id |-> id]
         /\ IF ~SupportsGet(r)
            THEN /\ pc' = "raised"
                 /\ error' = NotImplementedError(
                        "The " \o r
                        \o " endpoint does not support .info (get by ID)")
                 /\ UNCHANGED <<calls, ret>>
            ELSE \E resp \in InfoResponses(r \o ".info") :
                 LET out == Request(resp) IN
                 /\ calls' = Append(calls,
                        Call(r \o ".info", IdParam(r) :> id, resp))
                 /\ IF out.ok
                    THEN /\ pc' = "done"
                         /\ ret' = Return(FromDict(ModelOf(r),
                                Get(out.result, "results", EmptyDict)))
                         /\ error' = error
                    ELSE /\ pc' = "raised"
                         /\ error' = out.error
                         /\ ret' = ret
    /\ UNCHANGED <<request_data, cursor, items, job_title>>

-----------------------------------------------------------------------------
(* SurveysResource.parse_submission *)

\* field_map: field id -> title and field path -> title, later fields
\* overwriting earlier ones
RECURSIVE FieldMap(_)
FieldMap(fields) ==
    IF Len(fields) = 0 THEN EmptyDict
    ELSE LET field == fields[Len(fields)]
             field_id == Get(field, "id", None)
             field_title == Get(field, "title", None)
             field_path == Get(field, "path", "")
             before == FieldMap(SubSeq(fields, 1, Len(fields) - 1))
             with_id == IF Truthy(field_id)
                        THEN Put(before, field_id, field_title)
                        ELSE before
         IN  IF Truthy(field_path)
             THEN Put(with_id, field_path, field_title)
             ELSE with_id

\* skip_fields
SkipFields ==
    {"_systemfield_resume", "_systemfield_pre_parsed_resume",
     "_systemfield_name", "_systemfield_email", "_systemfield_phone"}

\* field_key.startswith("_systemfield_"), on the keys a submission may hold
StartsWithSystemfield(field_key) ==
    field_key \in SkipFields \cup {"_systemfield_location"}

Skipped_unlessDefined(field_key, field_map) ==
    StartsWithSystemfield(field_key) /\ field_key \notin DOMAIN field_map

\* the two `continue` tests of the loop over submittedValues
Skipped(field_key, field_map) ==
    \/ field_key \in SkipFields
    \/ StartsWithSystemfield(field_key) /\ field_key \notin DOMAIN field_map

\* repr() of the dicts that reach str() in the model
ReprDict(d) ==
    CASE d = [id |-> JStr("opt-1")] -> "{'id': 'opt-1'}"
      [] OTHER -> "{...}"

\* str(v) of a JSON value that is not a list
StrJ(v) ==
    CASE IsStr(v) -> v.str
      [] IsBool(v) -> IF v.bool THEN "True" ELSE "False"
      [] IsNull(v) -> "None"
      [] IsDict(v) -> ReprDict(v.dict)

\* str(v.get("name", v) if isinstance(v, dict) else v)
ElementStr(v) ==
    IF IsDict(v) THEN StrJ(Get(v.dict, "name", v)) ELSE StrJ(v)

\* ", ".join(...)
RECURSIVE JoinComma(_)
JoinComma(strs) ==
    IF Len(strs) = 0 THEN ""
    ELSE IF Len(strs) = 1 THEN strs[1]
    ELSE strs[1] \o ", " \o JoinComma(Tail(strs))

FormatValue_unchanged(value) == value

\* the "Format value" step
FormatValue(value) ==
    IF IsDict(value)
    THEN IF "text" \in DOMAIN value.dict THEN value.dict["text"]
         ELSE IF "name" \in DOMAIN value.dict THEN value.dict["name"]
         ELSE value
    ELSE IF IsBool(value) THEN JStr(IF value.bool THEN "Yes" ELSE "No")
    ELSE IF IsList(value)
    THEN JStr(JoinComma([i \in 1..Len(value.list) |->
                            ElementStr(value.list[i])]))
    ELSE value

\* the loop over submitted.items(), in the dict's order
RECURSIVE Answers(_, _)
Answers(submitted, field_map) ==
    IF Len(submitted) = 0 THEN EmptyDict
    ELSE LET entry == submitted[Len(submitted)]
             before == Answers(SubSeq(submitted, 1, Len(submitted) - 1),
                               field_map)
             title == Get(field_map, entry.key, entry.key)
         IN  IF Skipped(entry.key, field_map) THEN before
             ELSE Put(before, title, FormatValue(entry.value))

\* parse_submission(submission); formDefinition holds the fields of its
\* sections in order, submittedValues the items of the dict in order
ParseSubmissionResult(submission) ==
    [submitted_at |-> Get(submission, "submittedAt", None),
     candidate_id |-> Get(submission, "candidateId", None),
     application_id |-> Get(submission, "applicationId", None),
     survey_type |-> Get(submission, "surveyType", None),
     form_id |-> Get(submission, "id", None),
     answers |-> Answers(Get(submission, "submittedValues", <<>>),
                         FieldMap(Get(submission, "formDefinition", <<>>)))]

ParseSubmission ==
    /\ pc = "idle"
    /\ \E submission \in Submissions(MaxSubmitted) :
         /\ args' = [submission |-> submission]
         /\ ret' = Return(ParseSubmissionResult(submission))
    /\ op' = "parse_submission"
    /\ pc' = "done"
    /\ UNCHANGED <<resource, request_data, cursor, items, job_title, calls,
                   error>>

-----------------------------------------------------------------------------
(* The from_dict mappers, called on their own *)

\* Model.from_dict(data) returned the entity or raised
Mapped(out) ==
    IF out.ok
    THEN pc' = "done" /\ ret' = Return(out.result) /\ error' = error
    ELSE pc' = "raised" /\ error' = out.error /\ ret' = ret

HiringTeamRoleMap ==
    /\ pc = "idle"
    /\ \E data \in RoleData :
         /\ args' = [data |-> data]
         /\ Mapped(HiringTeamRoleFromDict(data))
    /\ op' = "HiringTeamRole.from_dict"
    /\ UNCHANGED <<resource, request_data, cursor, items, job_title, calls>>

ApplicationMap ==
    /\ pc = "idle"
    /\ \E data \in ApplicationData :
         /\ args' = [data |-> data]
         /\ Mapped(ApplicationFromDict(data))
    /\ op' = "Application.from_dict"
    /\ UNCHANGED <<resource, request_data, cursor, items, job_title, calls>>

CandidateMap ==
    /\ pc = "idle"
    /\ \E data \in CandidateData_inputs :
         /\ args' = [data |-> data]
         /\ Mapped(CandidateFromDict(data))
    /\ op' = "Candidate.from_dict"
    /\ UNCHANGED <<resource, request_data, cursor, items, job_title, calls>>

-----------------------------------------------------------------------------
(* AshbyClient.__init__ *)

ApiKey_argumentOnly(api_key, env) == api_key

\* self.api_key = api_key or os.getenv("ASHBY_API_KEY")
ApiKey(api_key, env) == IF Truthy(api_key) THEN api_key ELSE env

\* "Initialize resource endpoints": the attributes __init__ sets on the
\* client, each with the class of the resource instance it holds
ClientResources ==
    [jobs |-> "JobsResource",
     applications |-> "ApplicationsResource",
     candidates |-> "CandidatesResource",
     surveys |-> "SurveysResource",
     files |-> "FilesResource"]

\* AshbyClient(api_key) in a process whose environment holds env under
\* ASHBY_API_KEY: the new client is the value returned
Construct ==
    /\ pc = "idle"
    /\ \E api_key \in ApiKeys, env \in EnvKeys :
         LET key == ApiKey(api_key, env) IN
         /\ args' = [api_key |-> api_key, ASHBY_API_KEY |-> env]
         /\ IF ~Truthy(key)
            THEN /\ pc' = "raised"
                 /\ error' = AshbyAuthError(
                        "API key is required. Provide it as argument or set ASHBY_API_KEY env var.")
                 /\ ret' = ret
            ELSE /\ pc' = "done"
                 /\ ret' = Return([api_key |-> key,
                                   credentials |-> key \o ":",
                                   resources |-> ClientResources])
                 /\ error' = error
    /\ op' = "__init__"
    /\ UNCHANGED <<resource, request_data, cursor, items, job_title, calls>>

-----------------------------------------------------------------------------
(* InterviewStagesResource *)

\* list_for_job(job_id), up to the first interviewStage.list request
ListForJob ==
    /\ pc = "idle"
    /\ \E job_id \in JobIds, resp \in StageJobResponses :
         LET out == Request(resp)
             plan_id == PlanId(Get(out.result, "results", EmptyDict))
         IN  /\ args' = [job_id |-> job_id]
             /\ calls' = Append(calls, Call("job.info", "id" :> job_id, resp))
             /\ IF ~out.ok
                THEN /\ pc' = "raised"
                     /\ error' = out.error
                     /\ UNCHANGED <<ret, request_data>>
                ELSE IF ~Truthy(plan_id)
                THEN /\ pc' = "done"
                     /\ ret' = Return(<<>>)
                     /\ UNCHANGED <<error, request_data>>
                ELSE /\ pc' = "paginate"
                     /\ request_data' =
                           PaginateData("interviewPlanId" :> plan_id,
                                        DefaultLimit)
                     /\ UNCHANGED <<ret, error>>
    /\ op' = "list_for_job"
    /\ resource' = "interviewStage"
    /\ cursor' = None
    /\ items' = <<>>
    /\ UNCHANGED job_title

-----------------------------------------------------------------------------
(* CandidatesResource *)

SearchData_nameAlways(email, name) ==
    (IF Truthy(email) THEN "email" :> email ELSE EmptyDict)
    @@ ("name" :> name)

\* data = {}; if email: data["email"] = email; if name: data["name"] = name
SearchData(email, name) ==
    (IF Truthy(email) THEN "email" :> email ELSE EmptyDict)
    @@ (IF Truthy(name) THEN "name" :> name ELSE EmptyDict)

SearchResults_none(response) == <<>>

\* response.get("results", [])
SearchResults(response) == Get(response, "results", <<>>)

\* CandidatesResource.search(email, name)
Search ==
    /\ pc = "idle"
    /\ \E email \in Emails, name \in Names :
         LET data == SearchData(email, name) IN
         /\ args' = [email |-> email, name |-> name]
         /\ IF DOMAIN data = {}
            THEN /\ pc' = "raised"
                 /\ error' = ValueError(
                        "At least one of email or name must be provided")
                 /\ UNCHANGED <<calls, ret>>
            ELSE \E resp \in ListResponses("candidate.search") :
                 LET out == Request(resp)
                     mapped == IF out.ok
                               THEN MapCandidates(SearchResults(out.result))
                               ELSE out
                 IN  /\ calls' = Append(calls,
                            Call("candidate.search", data, resp))
                     /\ IF mapped.ok
                        THEN /\ pc' = "done"
                             /\ ret' = Return(mapped.result)
                             /\ error' = error
                        ELSE /\ pc' = "raised"
                             /\ error' = mapped.error
                             /\ ret' = ret
    /\ op' = "search"
    /\ resource' = "candidate"
    /\ UNCHANGED <<request_data, cursor, items, job_title>>

-----------------------------------------------------------------------------
(* The write operations: one request, the entity mapped from its response *)

WriteResults_none(response) == EmptyDict

\* response.get("results", {})
WriteResults(response) == Get(response, "results", EmptyDict)

\* response = self._request(endpoint, data); return entity, which is
\* Model.from_dict(response.get("results", {})) and computed only when the
\* request returned
Write(endpoint, data, resp, entity) ==
    LET out == Request(resp) IN
    /\ calls' = Append(calls, Call(endpoint, data, resp))
    /\ Mapped(IF out.ok THEN entity ELSE out)

\* ApplicationsResource.change_stage(application_id, interview_stage_id)
ChangeStage ==
    /\ pc = "idle"
    /\ \E application_id \in ApplicationIds, interview_stage_id \in StageIds,
          resp \in WriteResponses(WrittenApplications) :
         /\ args' = [application_id |-> application_id,
                     interview_stage_id |-> interview_stage_id]
         /\ Write("application.changeStage",
                  [applicationId |-> application_id,
                   interviewStageId |-> interview_stage_id],
                  resp,
                  ApplicationFromDict(WriteResults(Request(resp).result)))
    /\ op' = "change_stage"
    /\ resource' = "application"
    /\ UNCHANGED <<request_data, cursor, items, job_title>>

\* ApplicationsResource.archive(application_id, archive_reason_id)
Archive ==
    /\ pc = "idle"
    /\ \E application_id \in ApplicationIds,
          archive_reason_id \in ArchiveReasonIds,
          resp \in WriteResponses(WrittenApplications) :
         /\ args' = [application_id |-> application_id,
                     archive_reason_id |-> archive_reason_id]
         /\ Write("application.update",
                  [applicationId |-> application_id,
                   isArchived |-> TRUE,
                   archiveReasonId |-> archive_reason_id],
                  resp,
                  ApplicationFromDict(WriteResults(Request(resp).result)))
    /\ op' = "archive"
    /\ resource' = "application"
    /\ UNCHANGED <<request_data, cursor, items, job_title>>

\* CandidatesResource.add_tag(candidate_id, tag_id)
AddTag ==
    /\ pc = "idle"
    /\ \E candidate_id \in CandidateIds, tag_id \in TagIds,
          resp \in WriteResponses(CandidateData_inputs) :
         /\ args' = [candidate_id |-> candidate_id, tag_id |-> tag_id]
         /\ Write("candidate.addTag",
                  [candidateId |-> candidate_id, tagId |-> tag_id],
                  resp,
                  CandidateFromDict(WriteResults(Request(resp).result)))
    /\ op' = "add_tag"
    /\ resource' = "candidate"
    /\ UNCHANGED <<request_data, cursor, items, job_title>>

\* NotesResource.create(candidate_id, note_text, note_type)
CreateNote ==
    /\ pc = "idle"
    /\ \E candidate_id \in CandidateIds, note_text \in NoteTexts,
          note_type \in NoteTypes, resp \in WriteResponses(WrittenNotes) :
         /\ args' = [candidate_id |-> candidate_id, note_text |-> note_text,
                     note_type |-> note_type]
         /\ Write("candidate.createNote",
                  [candidateId |-> candidate_id, note |-> note_text,
                   type |-> note_type],
                  resp,
                  NoteFromDict(WriteResults(Request(resp).result)))
    /\ op' = "create_note"
    /\ resource' = "candidate"
    /\ UNCHANGED <<request_data, cursor, items, job_title>>

-----------------------------------------------------------------------------
(* FilesResource *)

\* response.get("results", {}).get("url", "")
GetUrl(response) ==
    LET results == Get(response, "results", JObj(EmptyDict)) IN
    IF ~IsDict(results) THEN Raised(NoGet(results))
    ELSE Returned(Get(results.dict, "url", ""))

\* "".join(parts)
RECURSIVE Joined(_)
Joined(parts) ==
    IF Len(parts) = 0 THEN "" ELSE parts[1] \o Joined(Tail(parts))

\* s.split(sep)[-1]: what follows the last sep
AfterLast(parts, sep) ==
    LET last == CHOOSE i \in 1..Len(parts) :
                    /\ parts[i] = sep
                    /\ \A j \in (i + 1)..Len(parts) : parts[j] # sep
    IN  SubSeq(parts, last + 1, Len(parts))

\* s.strip('"'): the quotes at both ends removed
RECURSIVE Stripped(_)
Stripped(parts) ==
    IF Len(parts) = 0 THEN parts
    ELSE IF parts[1] = "\"" THEN Stripped(Tail(parts))
    ELSE IF parts[Len(parts)] = "\""
    THEN Stripped(SubSeq(parts, 1, Len(parts) - 1))
    ELSE parts

\* filename = "downloaded_file"; if "filename=" in content_disp:
\* filename = content_disp.split("filename=")[-1].strip('"')
FileName(content_disp) ==
    IF \E i \in 1..Len(content_disp) : content_disp[i] = "filename="
    THEN Joined(Stripped(AfterLast(content_disp, "filename=")))
    ELSE "downloaded_file"

\* FilesResource.download(file_handle), up to the GET: get_url and the test
\* of the url
Download ==
    /\ pc = "idle"
    /\ \E file_handle \in FileHandles, resp \in FileInfoResponses :
         LET out == Request(resp)
             url == IF out.ok THEN GetUrl(out.result) ELSE out
         IN  /\ args' = [file_handle |-> file_handle]
             /\ calls' = Append(calls,
                    Call("file.info", [fileHandle |-> file_handle], resp))
             /\ IF ~url.ok
                THEN pc' = "raised" /\ error' = url.error
                ELSE IF ~Truthy(url.result)
                THEN /\ pc' = "raised"
                     /\ error' = AshbyNotFoundError(
                            "Could not get URL for file handle")
                ELSE pc' = "get" /\ error' = error
    /\ op' = "download"
    /\ resource' = "file"
    /\ UNCHANGED <<request_data, cursor, items, job_title, ret>>

\* download from requests.get(url) on: raise_for_status, the file name, the
\* return of content and name
DownloadGet ==
    /\ pc = "get"
    /\ \E resp \in GetResponses :
         LET url == GetUrl(calls[1].outcome.result).result
             failed == RaiseForStatus(resp.status)
         IN  /\ calls' = Append(calls,
                    [endpoint |-> "GET", data |-> [url |-> url],
                     resp |-> resp,
                     outcome |-> IF failed
                                 THEN Raised(HTTPError(resp.status))
                                 ELSE Returned(resp)])
             /\ IF failed
                THEN /\ pc' = "raised"
                     /\ error' = HTTPError(resp.status)
                     /\ ret' = ret
                ELSE /\ pc' = "done"
                     /\ ret' = Return(
                            [content |-> resp.content,
                             filename |-> FileName(
                                 Get(resp.headers, "content-disposition",
                                     <<>>))])
                     /\ error' = error
    /\ UNCHANGED <<op, resource, args, request_data, cursor, items, job_title>>

-----------------------------------------------------------------------------
(* JobPostingsResource *)

\* JobPostingsResource.list(job_id, limit), up to the first request
JobPostingsList ==
    /\ pc = "idle"
    /\ \E job_id \in {None} \cup JobIds, limit \in Limits :
         /\ args' = [job_id |-> job_id, limit |-> limit]
         /\ request_data' = PaginateData(EmptyDict, limit)
    /\ op' = "job_postings.list"
    /\ resource' = "jobPosting"
    /\ cursor' = None
    /\ items' = <<>>
    /\ pc' = "paginate"
    /\ UNCHANGED <<job_title, calls, ret, error>>

\* get_for_job(job_id, job_title), up to the first jobPosting.list request
GetForJob ==
    /\ pc = "idle"
    /\ \E job_id \in JobIds, title \in JobTitles :
         /\ args' = [job_id |-> job_id, job_title |-> title]
         /\ job_title' = title
    /\ op' = "get_for_job"
    /\ resource' = "jobPosting"
    /\ request_data' = PaginateData(EmptyDict, DefaultLimit)
    /\ cursor' = None
    /\ items' = <<>>
    /\ pc' = "paginate"
    /\ UNCHANGED <<calls, ret, error>>

\* get_description(job_id), up to the first jobPosting.list request: the
\* job.info lookup inside try/except Exception: pass, then get_for_job
GetDescription ==
    /\ pc = "idle"
    /\ \E job_id \in JobIds, resp \in InfoResponses("job.info") :
         LET out == Request(resp) IN
         /\ args' = [job_id |-> job_id]
         /\ calls' = Append(calls, Call("job.info", "id" :> job_id, resp))
         /\ job_title' =
               IF out.ok
               THEN JobFromDict(Get(out.result, "results", EmptyDict)).title
               ELSE None
    /\ op' = "get_description"
    /\ resource' = "jobPosting"
    /\ request_data' = PaginateData(EmptyDict, DefaultLimit)
    /\ cursor' = None
    /\ items' = <<>>
    /\ pc' = "paginate"
    /\ UNCHANGED <<ret, error>>

\* get_for_job after the listing, and get_description's return
GetForJobSelect ==
    /\ pc = "select"
    /\ LET postings == PostingsForJob(MapFromDict("JobPosting", items),
                                      args.job_id)
       IN  IF Len(postings) = 0
           THEN /\ pc' = "done"
                /\ ret' = Return(None)
                /\ UNCHANGED <<calls, error>>
           ELSE /\ Len(calls) < MaxRequests
                /\ \E resp \in InfoResponses("jobPosting.info") :
                     LET out == Request(resp)
                         id == BestPosting(postings, job_title).id
                     IN  /\ calls' = Append(calls,
                                Call("jobPosting.info", "jobPostingId" :> id,
                                     resp))
                         /\ IF out.ok
                            THEN /\ pc' = "done"
                                 /\ ret' = Return(
                                        LET posting == JobPostingFromDict(
                                                Get(out.result, "results",
                                                    EmptyDict))
                                        IN  IF op = "get_description"
                                            THEN Description(posting)
                                            ELSE posting)
                                 /\ error' = error
                            ELSE /\ pc' = "raised"
                                 /\ error' = out.error
                                 /\ ret' = ret
    /\ UNCHANGED <<op, resource, args, request_data, cursor, items, job_title>>

-----------------------------------------------------------------------------
(* A direct call of AshbyClient._request *)

DirectRequest ==
    /\ pc = "idle"
    /\ \E resp \in Responses :
         LET out == Request(resp) IN
         /\ calls' = Append(calls, Call("source.list", EmptyDict, resp))
         /\ IF out.ok
            THEN pc' = "done" /\ ret' = Return(out.result) /\ error' = error
            ELSE pc' = "raised" /\ error' = out.error /\ ret' = ret
    /\ op' = "_request"
    /\ UNCHANGED <<resource, args, request_data, cursor, items, job_title>>

-----------------------------------------------------------------------------
(* Specifications *)

Init ==
    /\ op = "idle"
    /\ pc = "idle"
    /\ resource = ""
    /\ args = EmptyDict
    /\ request_data = EmptyDict
    /\ cursor = None
    /\ items = <<>>
    /\ job_title = None
    /\ calls = <<>>
    /\ ret = NoReturn
    /\ error = NoError

\* the operation returned or raised; the client is ready for the next one
Finish ==
    /\ pc \in {"done", "raised"}
    /\ op' = "idle"
    /\ pc' = "idle"
    /\ resource' = ""
    /\ args' = EmptyDict
    /\ request_data' = EmptyDict
    /\ cursor' = None
    /\ items' = <<>>
    /\ job_title' = None
    /\ calls' = <<>>
    /\ ret' = NoReturn
    /\ error' = NoError

Next ==
    \/ Construct
    \/ GenericList
    \/ Search
    \/ PaginateStep
    \/ GenericGet
    \/ JobPostingsList
    \/ GetDescription
    \/ GetForJobSelect
    \/ Finish

\* resource operations against an arbitrary server
Spec == Init /\ [][Next]_vars

NextPostings ==
    \/ GetForJob
    \/ PaginateStep
    \/ GetForJobSelect
    \/ Finish

\* get_for_job against listings of every shape
SpecPostings == Init /\ [][NextPostings]_vars

NextStages ==
    \/ ListForJob
    \/ PaginateStep
    \/ Finish

\* list_for_job against plans and stage listings of every shape
SpecStages == Init /\ [][NextStages]_vars

NextMappers ==
    \/ ParseSubmission
    \/ HiringTeamRoleMap
    \/ ApplicationMap
    \/ CandidateMap
    \/ Finish

\* the pure conversions, on inputs of every shape
SpecMappers == Init /\ [][NextMappers]_vars

NextWrites ==
    \/ ChangeStage
    \/ Archive
    \/ AddTag
    \/ CreateNote
    \/ Finish

\* the write operations against a server that answers with any state
SpecWrites == Init /\ [][NextWrites]_vars

NextGenerator ==
    \/ PaginateCall
    \/ PaginateAgain
    \/ Demand
    \/ Send
    \/ Receive
    \/ YieldItem
    \/ PageEnd
    \/ Finish

\* _paginate in the hands of a caller that demands one item at a time
SpecGenerator == Init /\ [][NextGenerator]_vars

NextFiles == Download \/ DownloadGet \/ Finish

\* files.download against every answer of file.info and of the signed URL
SpecFiles == Init /\ [][NextFiles]_vars

NextRequest == DirectRequest \/ Finish

\* _request alone, on every status and body
SpecRequest == Init /\ [][NextRequest]_vars

-----------------------------------------------------------------------------
(* Reading the request log *)

\* the requests of the pagination in progress, as positions in the log
PageCalls == {i \in 1..Len(calls) : calls[i].endpoint = ListEndpoint}

\* the body of the i-th response
BodyOf(i) == calls[i].resp.body

\* the results of the first n responses, in order
RECURSIVE ConcatPages(_)
ConcatPages(n) ==
    IF n = 0 THEN <<>>
    ELSE ConcatPages(n - 1) \o Get(BodyOf(n), "results", <<>>)

\* a dict without one key
Without(d, k) == [x \in DOMAIN d \ {k} |-> d[x]]

\* the log is N successful pages, all but the last declaring
\* moreDataAvailable=true with a non-empty nextCursor, the last declaring false
WellFormedListing ==
    /\ Len(calls) >= 1
    /\ \A i \in 1..Len(calls) : calls[i].outcome.ok
    /\ \A i \in 1..(Len(calls) - 1) :
         /\ Get(BodyOf(i), "moreDataAvailable", FALSE) = TRUE
         /\ Truthy(Get(BodyOf(i), "nextCursor", None))
    /\ "moreDataAvailable" \in DOMAIN BodyOf(Len(calls))
    /\ BodyOf(Len(calls))["moreDataAvailable"] = FALSE

-----------------------------------------------------------------------------
(* Claims *)

\* C1: when the responses of a list() are N >= 1 successful pages, all but the
\* last declaring moreDataAvailable=true with a non-empty nextCursor and the
\* last declaring false, list() has returned the mapped items of all pages
\* concatenated in page and within-page order after exactly those N requests;
\* and list() never returns while its last page declares more data.
C1_PaginationComplete ==
    op = "list" =>
        /\ WellFormedListing =>
             /\ pc = "done"
             /\ ret = Return(MapFromDict(ModelOf(resource),
                                         ConcatPages(Len(calls))))
        /\ pc = "done" =>
             ~Get(BodyOf(Len(calls)), "moreDataAvailable", FALSE)

C1_Witness ==
    /\ op = "list"
    /\ pc = "done"
    /\ WellFormedListing
    /\ Len(calls) = 3
    /\ Len(ret.value) >= 4
    /\ Get(BodyOf(1), "results", <<>>) # Get(BodyOf(2), "results", <<>>)

\* C2: during one pagination every request after the first carries as cursor
\* exactly the nextCursor of the immediately preceding response, and all other
\* parameters are identical in every request of the pagination.
C2_CursorPropagation ==
    \A i \in PageCalls :
        (i - 1) \in PageCalls =>
            /\ "cursor" \in DOMAIN calls[i].data
            /\ calls[i].data["cursor"] = Get(BodyOf(i - 1), "nextCursor", None)
            /\ Without(calls[i].data, "cursor")
                   = Without(calls[i - 1].data, "cursor")

\* C3: a successful page that declares moreDataAvailable=true but supplies no
\* nextCursor ends the pagination with an AshbyAPIError.
C3_MissingCursorFails ==
    \A i \in PageCalls :
        ( /\ calls[i].outcome.ok
          /\ Get(BodyOf(i), "moreDataAvailable", FALSE)
          /\ "nextCursor" \notin DOMAIN BodyOf(i) )
        => /\ i = Len(calls)
           /\ pc = "raised"
           /\ error.type = "AshbyAPIError"

\* C4 (as amended): _request maps status 401 and status 403 both to
\* AshbyAuthError, one error kind, told apart only by the message, and does so
\* whatever the body contains.
C4_AuthErrorBeforeBody ==
    (op = "_request" /\ calls[1].resp.status \in {401, 403}) =>
        /\ pc = "raised"
        /\ ~ret.returned
        /\ error.type = "AshbyAuthError"
        /\ calls[1].resp.status = 401
             => error.message = "Invalid or missing API key"
        /\ calls[1].resp.status = 403
             => error.message
                  = "API key does not have permission for this endpoint"

C4_Witness ==
    /\ op = "_request"
    /\ calls[1].resp.status = 403
    /\ Get(BodyOf(1), "success", FALSE)
    /\ "results" \in DOMAIN BodyOf(1)
    /\ pc = "raised"

\* C4 (as claimed): 401 and 403 are mapped to two distinguishable error kinds:
\* the kind raised for the one status differs from the kind _request raises
\* for the other status with the same body.
C4_TwoErrorKinds ==
    (op = "_request" /\ calls[1].resp.status \in {401, 403}) =>
        /\ pc = "raised"
        /\ error.type # Request([status |-> 401 + 403 - calls[1].resp.status,
                                 body |-> BodyOf(1)]).error.type

\* C5: for every status outside 2xx other than 401 and 403, _request fails
\* with a transport error carrying the status code and returns nothing.
C5_NonSuccessStatusIsTransportError ==
    ( /\ op = "_request"
      /\ calls[1].resp.status \notin 200..299
      /\ calls[1].resp.status \notin {401, 403} )
    => /\ pc = "raised"
       /\ ~ret.returned
       /\ error = HTTPError(calls[1].resp.status)

\* the text Python prints for the errors lists the server sends
ErrorsText(errors) ==
    CASE errors = <<>> -> "[]"
      [] errors = <<"invalid_request">> -> "['invalid_request']"
      [] errors = <<"invalid_request", "bad_cursor">>
            -> "['invalid_request', 'bad_cursor']"

\* a 2xx response whose success flag is false or absent
FailedBody ==
    /\ op = "_request"
    /\ calls[1].resp.status \in 200..299
    /\ ~Get(BodyOf(1), "success", FALSE)

\* C6 (as amended): on a 2xx response whose success flag is false, _request
\* fails with an AshbyAPIError whose message is "API error: " followed by the
\* errorInfo message when errorInfo is present and not empty ("None" when it
\* has no message), otherwise followed by the text of the whole errors list
\* ("[]" when there is none); the error carries the body's raw errors list.
C6_ApiErrorMessage ==
    FailedBody =>
        LET errors == Get(BodyOf(1), "errors", <<>>)
            info == Get(BodyOf(1), "errorInfo", EmptyDict)
        IN  /\ pc = "raised"
            /\ error.type = "AshbyAPIError"
            /\ error.errors = errors
            /\ error.message =
                 IF info = EmptyDict THEN "API error: " \o ErrorsText(errors)
                 ELSE IF "message" \in DOMAIN info
                 THEN "API error: " \o info["message"]
                 ELSE "API error: None"

C6_Witness ==
    /\ FailedBody
    /\ "errorInfo" \notin DOMAIN BodyOf(1)
    /\ Get(BodyOf(1), "errors", <<>>) = <<"invalid_request", "bad_cursor">>
    /\ pc = "raised"

\* C6 (as claimed): the message equals the errorInfo message when that field
\* is present, otherwise the first entry of the errors list; the error carries
\* the raw errors list.
C6_MessageFromBody ==
    FailedBody =>
        LET errors == Get(BodyOf(1), "errors", <<>>)
            info == Get(BodyOf(1), "errorInfo", EmptyDict)
        IN  /\ pc = "raised"
            /\ error.type = "AshbyAPIError"
            /\ error.errors = errors
            /\ "message" \in DOMAIN info => error.message = info["message"]
            /\ ("message" \notin DOMAIN info /\ Len(errors) > 0)
                 => error.message = errors[1]

\* C7: list() returns only if every page request succeeded; a failed page
\* request, first or later, is the last request, and list() raises its error
\* and returns nothing.
C7_NoPartialResult ==
    op = "list" =>
        /\ ret.returned => \A i \in 1..Len(calls) : calls[i].outcome.ok
        /\ \A i \in 1..Len(calls) :
             ~calls[i].outcome.ok =>
                 /\ i = Len(calls)
                 /\ pc = "raised"
                 /\ error = calls[i].outcome.error
                 /\ ~ret.returned

C7_Witness ==
    /\ op = "list"
    /\ pc = "raised"
    /\ Len(calls) = 3
    /\ Len(items) >= 2
    /\ ~ret.returned

\* C8: whenever a request issued on behalf of an operation fails, it is the
\* operation's last request and the operation fails with its error.
C8_NoSilentRecovery ==
    \A i \in 1..Len(calls) :
        ~calls[i].outcome.ok =>
            /\ i = Len(calls)
            /\ pc = "raised"
            /\ error = calls[i].outcome.error

\* C9: get(id) on a resource whose supports_get is disabled fails with
\* NotImplementedError for every id, without issuing any request.
C9_GetGated ==
    (op = "get" /\ ~Descriptors[resource].supports_get) =>
        /\ pc = "raised"
        /\ error.type = "NotImplementedError"
        /\ ~ret.returned
        /\ calls = <<>>

C9_Witness ==
    /\ op = "get"
    /\ resource = "source"
    /\ pc = "raised"
    /\ calls = <<>>

\* C10: every request of a GenericResource.list pagination carries exactly
\* the filters that have a value, unchanged, none of the filters without a
\* value, and limit equal to the page size.
C10_FiltersSent ==
    op = "list" =>
        \A i \in 1..Len(calls) :
            LET data == calls[i].data
                filters == args.filters
            IN  /\ \A k \in DOMAIN filters :
                     IF filters[k] = None THEN k \notin DOMAIN data
                     ELSE k \in DOMAIN data /\ data[k] = filters[k]
                /\ DOMAIN data \subseteq DOMAIN filters \cup {"limit", "cursor"}
                /\ "limit" \in DOMAIN data
                /\ data["limit"] = args.limit

C10_Witness ==
    /\ op = "list"
    /\ Len(calls) = 2
    /\ "cursor" \in DOMAIN calls[2].data
    /\ args.filters = [includeArchived |-> "", syncToken |-> None]
    /\ args.limit = 1

-----------------------------------------------------------------------------
(* C11 *)

\* C11: candidates.search called with neither email nor name raises the
\* ValueError without issuing any request; called with only email it issues
\* one candidate.search request whose data holds that email and no name.
C11_SearchPrecondition ==
    op = "search" =>
        /\ (~Truthy(args.email) /\ ~Truthy(args.name)) =>
               /\ pc = "raised"
               /\ error.type = "ValueError"
               /\ calls = <<>>
        /\ (Truthy(args.email) /\ ~Truthy(args.name)) =>
               /\ Len(calls) = 1
               /\ calls[1].endpoint = "candidate.search"
               /\ calls[1].data = ("email" :> args.email)

\* a search by email alone that was sent and answered with candidates
C11_Witness ==
    /\ op = "search"
    /\ Truthy(args.email) /\ ~Truthy(args.name)
    /\ Len(calls) = 1
    /\ "name" \notin DOMAIN calls[1].data
    /\ pc = "done"
    /\ Len(ret.value) = 2

-----------------------------------------------------------------------------
(* C12, C13: get_for_job's choice *)

\* the listing get_for_job received: the results of the jobPosting.list page
Listing == Get(BodyOf(1), "results", <<>>)

\* the positions in the listing of the postings of the job asked for
OfJob == {i \in 1..Len(Listing) : Get(Listing[i], "jobId", "") = args.job_id}

\* one of the job's postings has exactly the title asked for
TitleMatch ==
    /\ Truthy(args.job_title)
    /\ \E i \in OfJob : Get(Listing[i], "title", "") = args.job_title

\* get_for_job went past its selection with two or more postings to choose from
ChoseAmongSeveral ==
    /\ op = "get_for_job"
    /\ pc \in {"done", "raised"}
    /\ Len(calls) >= 1 /\ calls[1].outcome.ok
    /\ Cardinality(OfJob) >= 2

\* the posting was fetched with one jobPosting.info request and what that
\* request returned is what get_for_job returns
FetchedAndReturned ==
    /\ Len(calls) = 2
    /\ calls[2].endpoint = "jobPosting.info"
    /\ DOMAIN calls[2].data = {"jobPostingId"}
    /\ pc = "done" =>
          ret = Return(JobPostingFromDict(Get(BodyOf(2), "results", EmptyDict)))

\* C12: when two or more postings exist for the job and at least one has a
\* title exactly equal to job_title, get_for_job fetches (by id) a posting of
\* the job with that exact title and returns what the fetch returned, whatever
\* the updatedAt values and the order of the listing.
C12_TitleMatchWins ==
    (ChoseAmongSeveral /\ TitleMatch) =>
        /\ FetchedAndReturned
        /\ \E i \in OfJob :
             /\ Listing[i].id = calls[2].data["jobPostingId"]
             /\ Listing[i].title = args.job_title

\* the title match is neither the newest nor the first listed posting of the
\* job, and it was fetched and returned
C12_Witness ==
    /\ ChoseAmongSeveral /\ TitleMatch
    /\ pc = "done"
    /\ Len(calls) = 2
    /\ \E i \in OfJob :
         /\ Listing[i].id = calls[2].data["jobPostingId"]
         /\ \E j \in OfJob :
              /\ j < i
              /\ SortKey(JobPostingFromDict(Listing[j]))
                    > SortKey(JobPostingFromDict(Listing[i]))

\* C13: when two or more postings exist for the job and none has a title
\* equal to job_title (or no job_title is given), get_for_job fetches and
\* returns the posting whose updatedAt is the greatest, a posting without
\* updatedAt ranking below every posting that has one, the first listed among
\* those with equal updatedAt.
C13_NewestOtherwise ==
    (ChoseAmongSeveral /\ ~TitleMatch) =>
        /\ FetchedAndReturned
        /\ \E i \in OfJob :
             /\ Listing[i].id = calls[2].data["jobPostingId"]
             /\ \A j \in OfJob :
                  LET ki == SortKey(JobPostingFromDict(Listing[i]))
                      kj == SortKey(JobPostingFromDict(Listing[j]))
                  IN  /\ kj <= ki
                      /\ "updatedAt" \in DOMAIN Listing[j]
                            => "updatedAt" \in DOMAIN Listing[i]
                      /\ kj = ki => i <= j

\* no title match; the posting fetched is one of two with the same, greatest
\* updatedAt, listed after a posting without updatedAt
C13_Witness ==
    /\ ChoseAmongSeveral /\ ~TitleMatch
    /\ pc = "done"
    /\ Len(calls) = 2
    /\ \E i, j, k \in OfJob :
         /\ k < i /\ i < j
         /\ "updatedAt" \notin DOMAIN Listing[k]
         /\ "updatedAt" \in DOMAIN Listing[i]
         /\ "updatedAt" \in DOMAIN Listing[j]
         /\ Listing[i].updatedAt = Listing[j].updatedAt
         /\ Listing[i].id = calls[2].data["jobPostingId"]

-----------------------------------------------------------------------------
(* C14 *)

\* C14: job_postings.list(job_id) never sends a jobId filter: every request
\* goes to jobPosting.list with the limit (and the cursor) alone, and the
\* value returned is exactly the postings of all pages whose jobId equals
\* job_id, in server order, or all postings when no job_id is given.
C14_ClientSideFilter ==
    op = "job_postings.list" =>
        /\ \A i \in 1..Len(calls) :
             /\ calls[i].endpoint = "jobPosting.list"
             /\ "jobId" \notin DOMAIN calls[i].data
             /\ Without(calls[i].data, "cursor") = [limit |-> args.limit]
        /\ pc = "done" =>
             LET all == MapFromDict("JobPosting", ConcatPages(Len(calls))) IN
             ret = Return(IF args.job_id = None THEN all
                          ELSE SelectSeq(all,
                                   LAMBDA p : p.job_id = args.job_id))

\* a listing of two pages from which the filter kept some postings and
\* dropped others
C14_Witness ==
    /\ op = "job_postings.list"
    /\ pc = "done"
    /\ args.job_id = "job-1"
    /\ Len(calls) = 2
    /\ Len(ret.value) >= 1
    /\ Len(ret.value) < Len(ConcatPages(2))

-----------------------------------------------------------------------------
(* C15 *)

\* the stage objects list_for_job received, the empty ones left out
ListedStages ==
    SelectSeq(Get(BodyOf(2), "results", <<>>), LAMBDA d : DOMAIN d # {})

\* the position in the listing of the stage with this id
ListedAt(id) == CHOOSE i \in 1..Len(ListedStages) : ListedStages[i].id = id

\* list_for_job returned the stages of a plan it listed in one page
ReturnedStages ==
    /\ op = "list_for_job"
    /\ pc = "done"
    /\ Len(calls) = 2

\* the value returned holds every listed stage once
SameStages ==
    /\ Len(ret.value) = Len(ListedStages)
    /\ {ret.value[i].id : i \in 1..Len(ret.value)}
          = {ListedStages[i].id : i \in 1..Len(ListedStages)}

\* the value returned is ascending in key and keeps the listed order of
\* stages with equal keys
AscendingStable(key(_)) ==
    \A i, j \in 1..Len(ret.value) :
        i < j =>
            /\ key(ret.value[i]) <= key(ret.value[j])
            /\ key(ret.value[i]) = key(ret.value[j])
                  => ListedAt(ret.value[i].id) < ListedAt(ret.value[j].id)

\* orderInStageGroup of the stage as the server sent it, a missing one as 0
StageGroupOrder(stage) ==
    LET g == Get(stage.raw_data, "orderInStageGroup", NoneInt)
    IN  IF g = NoneInt THEN 0 ELSE g

\* orderInStageGroup of the stage as the server sent it or, when that is
\* missing or 0, orderInInterviewPlan; 0 when both are missing
StageOrPlanOrder(stage) ==
    LET g == Get(stage.raw_data, "orderInStageGroup", NoneInt)
        o == Get(stage.raw_data, "orderInInterviewPlan", NoneInt)
    IN  IF g # NoneInt /\ g # 0 THEN g
        ELSE IF o # NoneInt THEN o
        ELSE 0

\* C15 (as stated): list_for_job returns the stages of the resolved plan
\* sorted ascending by orderInStageGroup, a missing order being treated as 0,
\* stages with equal sort keys keeping their listed order.
C15_SortedByStageGroupOrder ==
    ReturnedStages => SameStages /\ AscendingStable(StageGroupOrder)

\* C15 (amended): list_for_job returns the non-empty stages of the resolved
\* plan sorted ascending by orderInStageGroup or, for a stage without one, by
\* its orderInInterviewPlan, a stage with neither being treated as 0, stages
\* with equal sort keys keeping their listed order.
C15_SortedByMappedOrder ==
    ReturnedStages => SameStages /\ AscendingStable(StageOrPlanOrder)

\* three stages with orders [2, None, 1] came back as [None, 1, 2]
C15_Witness ==
    /\ ReturnedStages
    /\ Len(ListedStages) = 3
    /\ \A i \in 1..3 :
         /\ "orderInInterviewPlan" \notin DOMAIN ListedStages[i]
         /\ "orderInStageGroup" \in DOMAIN ListedStages[i]
    /\ ListedStages[1].orderInStageGroup = 2
    /\ ListedStages[2].orderInStageGroup = NoneInt
    /\ ListedStages[3].orderInStageGroup = 1
    /\ <<ret.value[1].id, ret.value[2].id, ret.value[3].id>>
          = <<"s2", "s3", "s1">>

-----------------------------------------------------------------------------
(* C16 *)

\* C16: constructing the client with no api_key argument and no
\* ASHBY_API_KEY in the environment raises AshbyAuthError, and with a key
\* from either source returns a client holding that key (the argument before
\* the environment); no request is issued in either case.
C16_KeyRequiredAtConstruction ==
    op = "__init__" =>
        /\ calls = <<>>
        /\ (~Truthy(args.api_key) /\ ~Truthy(args.ASHBY_API_KEY)) =>
               pc = "raised" /\ error.type = "AshbyAuthError"
        /\ Truthy(args.api_key) =>
               pc = "done" /\ ret.value.api_key = args.api_key
        /\ (~Truthy(args.api_key) /\ Truthy(args.ASHBY_API_KEY)) =>
               pc = "done" /\ ret.value.api_key = args.ASHBY_API_KEY

\* a client constructed without the argument, on the environment's key
C16_Witness ==
    /\ op = "__init__"
    /\ args.api_key = None
    /\ pc = "done"
    /\ ret.value.api_key = "env-key"
    /\ calls = <<>>

-----------------------------------------------------------------------------
(* C17, C18: parse_submission *)

\* the fields of the submission's form definition
DefinedFields ==
    {args.submission.formDefinition[i] :
        i \in 1..Len(args.submission.formDefinition)}

\* the key is the id or the path of a field of the form definition
Defined(key) == \E f \in DefinedFields : f.id = key \/ f.path = key

\* the title of the field whose id or path is the key, the key itself when
\* there is none
TitleOf(key) ==
    IF Defined(key)
    THEN (CHOOSE f \in DefinedFields : f.id = key \/ f.path = key).title
    ELSE key

\* the submitted items, in order
Submitted == args.submission.submittedValues

\* the fixed system fields: name, email, phone, resume
FixedSystemFields ==
    {"_systemfield_name", "_systemfield_email", "_systemfield_phone",
     "_systemfield_resume", "_systemfield_pre_parsed_resume"}

\* the answers come from exactly the submitted items that keep(key) holds for
AnswersFrom(keep(_)) ==
    DOMAIN ret.value.answers
        = {TitleOf(Submitted[i].key) :
              i \in {j \in 1..Len(Submitted) : keep(Submitted[j].key)}}

\* C17 (as stated): parse_submission omits a submitted value whose key is one
\* of the fixed system fields unless that key is also defined as a field in
\* the form definition, in which case the value appears in answers under the
\* field's title.
C17_SystemFieldKeptWhenDefined ==
    op = "parse_submission" =>
        \A i \in 1..Len(Submitted) :
            Submitted[i].key \in FixedSystemFields =>
                (TitleOf(Submitted[i].key) \in DOMAIN ret.value.answers
                    <=> Defined(Submitted[i].key))

\* C17 (amended): parse_submission always omits a submitted value whose key
\* is one of the fixed system fields, defined in the form definition or not;
\* a value under any other _systemfield_ key is omitted unless that key is
\* defined as a field of the form definition, in which case it appears in
\* answers under the field's title; every other value appears in answers.
C17_FixedSystemFieldsAlwaysOmitted ==
    op = "parse_submission" =>
        AnswersFrom(LAMBDA key :
            /\ key \notin FixedSystemFields
            /\ key = "_systemfield_location" => Defined(key))

\* the email system field, declared in the form definition and submitted
\* alone: no answer; and the location system field likewise: one answer
C17_Witness ==
    /\ op = "parse_submission"
    /\ Len(Submitted) = 2
    /\ Submitted[1].key = "_systemfield_email"
    /\ Submitted[2].key = "_systemfield_location"
    /\ Defined("_systemfield_email")
    /\ Defined("_systemfield_location")
    /\ DOMAIN ret.value.answers = {"Location"}

\* the submitted item that decides the answer under its title: no later item
\* has the same title
Decides(i) ==
    /\ TitleOf(Submitted[i].key) \in DOMAIN ret.value.answers
    /\ \A j \in (i + 1)..Len(Submitted) :
         TitleOf(Submitted[j].key) = TitleOf(Submitted[i].key)
            => Submitted[j].key \in FixedSystemFields

\* C18: parse_submission maps each non-skipped submitted value to the title
\* of its field (looked up by field id or path) and normalizes it: a boolean
\* becomes "Yes" or "No", a list becomes its elements joined with ", " using
\* an element's name sub-field when the element is an object, and an object
\* becomes its text sub-field, else its name sub-field.
C18_Normalized ==
    op = "parse_submission" =>
        \A i \in 1..Len(Submitted) :
            Decides(i) =>
                LET value == Submitted[i].value
                    answer == ret.value.answers[TitleOf(Submitted[i].key)]
                IN  /\ IsBool(value) =>
                          answer = JStr(IF value.bool THEN "Yes" ELSE "No")
                    /\ IsList(value) =>
                          answer = JStr(JoinComma(
                              [k \in 1..Len(value.list) |->
                                  IF IsDict(value.list[k])
                                     /\ "name" \in DOMAIN value.list[k].dict
                                  THEN value.list[k].dict.name.str
                                  ELSE StrJ(value.list[k])]))
                    /\ (IsDict(value) /\ "text" \in DOMAIN value.dict) =>
                          answer = value.dict.text
                    /\ (IsDict(value) /\ "text" \notin DOMAIN value.dict
                            /\ "name" \in DOMAIN value.dict) =>
                          answer = value.dict.name
                    /\ IsStr(value) => answer = value

\* a list of a string and an object with a name, answered under the title of
\* the field found by its path, next to a boolean
C18_Witness ==
    /\ op = "parse_submission"
    /\ Len(Submitted) = 2
    /\ Submitted[1].key = "_systemfield_location"
    /\ Submitted[2].key = "f1"
    /\ "Location" \in DOMAIN ret.value.answers
    /\ "Remote OK?" \in DOMAIN ret.value.answers
    /\ ret.value.answers["Location"] = JStr("Python, Go")
    /\ ret.value.answers["Remote OK?"] = JStr("No")

-----------------------------------------------------------------------------
(* C19 *)

\* C19: HiringTeamRole.from_dict maps a bare string s to an entity with
\* name = s and an empty id, and an object {name, id} to an entity with that
\* name and that id.
C19_RoleShapes ==
    op = "HiringTeamRole.from_dict" =>
        /\ IsStr(args.data) =>
              /\ pc = "done"
              /\ ret.value.name = args.data.str
              /\ ret.value.id = ""
        /\ (IsDict(args.data) /\ DOMAIN args.data.dict = {"name", "id"}) =>
              /\ pc = "done"
              /\ ret.value.name = args.data.dict.name
              /\ ret.value.id = args.data.dict.id

\* the bare string "Recruiter" mapped to a role of that name without id
C19_Witness ==
    /\ op = "HiringTeamRole.from_dict"
    /\ args.data = JStr("Recruiter")
    /\ pc = "done"
    /\ ret.value.name = "Recruiter"
    /\ ret.value.id = ""

-----------------------------------------------------------------------------
(* C20 *)

\* the nested objects of the entity being mapped, with the attribute each is
\* mapped to
NestedFields ==
    IF op = "Application.from_dict"
    THEN [candidate |-> "candidate",
          currentInterviewStage |-> "current_stage",
          source |-> "source",
          applicationFormSubmission |-> "form_submission",
          creditedTo |-> "credited_to"]
    ELSE [primaryEmailAddress |-> "primary_email",
          primaryPhoneNumber |-> "primary_phone",
          resumeFileHandle |-> "resume_file"]

\* the nested value under key is absent, null or malformed: not an object
\* (nor, for resumeFileHandle, a bare handle string)
AbsentNullOrMalformed(key) ==
    \/ key \notin DOMAIN args.data
    \/ /\ ~IsDict(args.data[key])
       /\ ~(key = "resumeFileHandle" /\ IsStr(args.data[key]))

\* C20: for Application and Candidate, a nested object that is absent, null
\* or malformed yields None for that nested field and never makes the
\* parent's from_dict fail.
C20_NestedNeverFails ==
    op \in {"Application.from_dict", "Candidate.from_dict"} =>
        /\ pc = "done"
        /\ \A key \in DOMAIN NestedFields :
             AbsentNullOrMalformed(key)
                => ret.value[NestedFields[key]] = NoneObj

-----------------------------------------------------------------------------
(* C21 *)

\* the entity keeps the raw object it was mapped from
Retains(entity, raw) ==
    /\ "raw_data" \in DOMAIN entity
    /\ entity.raw_data = raw

\* C21: every entity returned by a resource retains the original raw JSON
\* object it was mapped from, for every entity type (Source and Department
\* included).
C21_RawDataRetained ==
    pc = "done" =>
        /\ op = "list" =>
              \A i \in 1..Len(ret.value) :
                  Retains(ret.value[i], ConcatPages(Len(calls))[i])
        /\ op = "get" =>
              Retains(ret.value, Get(BodyOf(1), "results", EmptyDict))
        /\ op = "job_postings.list" =>
              \A i \in 1..Len(ret.value) :
                  \E j \in 1..Len(ConcatPages(Len(calls))) :
                      Retains(ret.value[i], ConcatPages(Len(calls))[j])

-----------------------------------------------------------------------------
(* C22 *)

\* the collections that have a specialized resource
SpecializedCollections ==
    {"jobs", "applications", "candidates", "interview_stages", "job_postings",
     "notes", "feedback", "surveys", "files"}

\* the collections served by a generic resource
GenericCollections ==
    {"sources", "departments", "locations", "users", "custom_fields",
     "projects", "offers", "interviews", "interview_schedules",
     "candidate_tags", "archive_reasons", "close_reasons",
     "hiring_team_roles"}

\* C22: after construction the client holds one resource instance for every
\* collection of the endpoint table: each specialized resource and a generic
\* resource for each of the other collections.
C22_HoldsEveryResource ==
    (op = "__init__" /\ pc = "done") =>
        /\ \A c \in SpecializedCollections \cup GenericCollections :
               c \in DOMAIN ret.value.resources
        /\ \A c \in GenericCollections \cap DOMAIN ret.value.resources :
               ret.value.resources[c] = "GenericResource"

-----------------------------------------------------------------------------
(* C23 *)

WriteOps == {"change_stage", "archive", "add_tag", "create_note"}

\* the request a write operation sends for its arguments
MutationOf(operation, a) ==
    CASE operation = "change_stage" ->
            [endpoint |-> "application.changeStage",
             data |-> [applicationId |-> a.application_id,
                       interviewStageId |-> a.interview_stage_id]]
      [] operation = "archive" ->
            [endpoint |-> "application.update",
             data |-> [applicationId |-> a.application_id,
                       isArchived |-> TRUE,
                       archiveReasonId |-> a.archive_reason_id]]
      [] operation = "add_tag" ->
            [endpoint |-> "candidate.addTag",
             data |-> [candidateId |-> a.candidate_id, tagId |-> a.tag_id]]
      [] operation = "create_note" ->
            [endpoint |-> "candidate.createNote",
             data |-> [candidateId |-> a.candidate_id, note |-> a.note_text,
                       type |-> a.note_type]]

\* C23: each write operation (change_stage, archive, add_tag, notes.create)
\* sends the mutation as its only request, and the entity it returns is mapped
\* from the results of the response to that request: its raw data and its id
\* are the server's, whatever the caller's arguments were.
C23_WriteReturnsServerState ==
    op \in WriteOps =>
        /\ Len(calls) = 1
        /\ calls[1].endpoint = MutationOf(op, args).endpoint
        /\ calls[1].data = MutationOf(op, args).data
        /\ pc = "done" =>
              LET sent == Get(BodyOf(1), "results", EmptyDict) IN
              /\ calls[1].outcome.ok
              /\ ret.value.raw_data = sent
              /\ ret.value.id = Get(sent, "id", "")
        /\ pc = "raised" =>
              \/ ~calls[1].outcome.ok
              \/ error.type = "AttributeError"

\* change_stage asked for stage-2 and returned the application in stage-1,
\* as the server sent it
C23_Witness ==
    /\ op = "change_stage"
    /\ pc = "done"
    /\ args.interview_stage_id = "stage-2"
    /\ ret.value.current_stage # NoneObj
    /\ ret.value.current_stage.id = "stage-1"
    /\ ret.value.raw_data = BodyOf(1).results

-----------------------------------------------------------------------------
(* C24, C28, C29: the generator *)

\* C24: within one pagination no request is issued before the first item is
\* demanded, and a request is issued only when every response before it was
\* received successfully and all of its items were yielded, in order; what
\* was yielded is always a prefix of what was received.
C24_SequentialAndLazy ==
    op = "_paginate" =>
        /\ pc = "created" => (calls = <<>> /\ request_data = EmptyDict)
        /\ pc \in {"loop", "in_flight"} =>
              /\ \A i \in 1..Len(calls) : calls[i].outcome.ok
              /\ items = ConcatPages(Len(calls))
        /\ Len(items) <= Len(ConcatPages(Len(calls)))
        /\ items = SubSeq(ConcatPages(Len(calls)), 1, Len(items))

\* the second request is in flight after both items of the first page were
\* yielded
C24_Witness ==
    /\ op = "_paginate"
    /\ pc = "in_flight"
    /\ Len(calls) = 1
    /\ Len(items) = 2

\* the i-th response ends the pagination: the request failed, or the page's
\* moreDataAvailable is false or absent
EndsPagination(i) ==
    \/ ~calls[i].outcome.ok
    \/ "moreDataAvailable" \notin DOMAIN BodyOf(i)
    \/ BodyOf(i)["moreDataAvailable"] = FALSE

\* C28: once the server returned a page whose moreDataAvailable is false or
\* absent, or a request failed, the pagination issues no further request,
\* even if that page carries a nextCursor: such a response is the last one
\* and the generator is not on its way to another request.
C28_StopsAtLastPage ==
    op = "_paginate" =>
        \A i \in 1..Len(calls) :
            EndsPagination(i) =>
                /\ i = Len(calls)
                /\ pc \in {"for", "suspended", "done", "raised"}
                /\ pc = "raised" <=> ~calls[i].outcome.ok

\* the pagination is done after a second page that declared no more data and
\* yet carried a nextCursor
C28_Witness ==
    /\ op = "_paginate"
    /\ pc = "done"
    /\ Len(calls) = 2
    /\ "nextCursor" \in DOMAIN BodyOf(2)
    /\ BodyOf(2)["nextCursor"] = "cursor_1"
    /\ "moreDataAvailable" \notin DOMAIN BodyOf(2)
    /\ Len(items) >= 2

\* C29: _paginate never modifies the parameter mapping its caller passed:
\* the mapping is the same at every point of a pagination, completed or
\* failed, as when it was passed, limit and cursor being written to the
\* private request_data only; and every pagination with that mapping, a
\* later one included, starts with a request that carries the mapping and
\* the limit and no cursor.
C29_CallersMappingUntouched ==
    op = "_paginate" =>
        /\ args.data = args.passed
        /\ Len(calls) >= 1 =>
              /\ "cursor" \notin DOMAIN calls[1].data
              /\ calls[1].data
                    = [k \in DOMAIN args.passed \cup {"limit"} |->
                          IF k = "limit" THEN args.limit ELSE args.passed[k]]

\* a second pagination with a mapping that has a limit of its own, after the
\* first sent a cursor: its first request is under way, without a cursor
C29_Witness ==
    /\ op = "_paginate"
    /\ args.again
    /\ args.passed = [limit |-> 5, includeArchived |-> "true"]
    /\ Len(calls) = 2
    /\ "cursor" \in DOMAIN calls[2].data
    /\ request_data # args.data

-----------------------------------------------------------------------------
(* C25 *)

\* the job list_for_job received
StagesJob == Get(BodyOf(1), "results", EmptyDict)

\* the job has a default interview plan
HasDefaultPlan == Truthy(Get(StagesJob, "defaultInterviewPlanId", None))

\* the job has associated interview plans
HasAssociatedPlans == Len(Get(StagesJob, "interviewPlanIds", <<>>)) > 0

\* every request after the first lists the stages of this plan, and so will
\* the request the pagination is about to issue
ListsStagesOf(plan) ==
    /\ \A i \in 2..Len(calls) :
         /\ calls[i].endpoint = "interviewStage.list"
         /\ calls[i].data["interviewPlanId"] = plan
    /\ Len(calls) = 1 =>
         (pc = "paginate" /\ request_data["interviewPlanId"] = plan)

\* C25: list_for_job first requests the job (job.info with the job's id);
\* then it lists the stages of the job's default interview plan if it has
\* one, otherwise of the first of its associated plans; when the job has
\* neither it returns an empty list without any stage-list request.
C25_PlanResolution ==
    op = "list_for_job" =>
        /\ Len(calls) >= 1
        /\ calls[1].endpoint = "job.info"
        /\ calls[1].data = [id |-> args.job_id]
        /\ calls[1].outcome.ok =>
              IF HasDefaultPlan
              THEN ListsStagesOf(StagesJob["defaultInterviewPlanId"])
              ELSE IF HasAssociatedPlans
              THEN ListsStagesOf(StagesJob["interviewPlanIds"][1])
              ELSE /\ Len(calls) = 1
                   /\ pc = "done"
                   /\ ret = Return(<<>>)

\* a job without default plan and with two associated plans: the stages of
\* the first were listed and returned
C25_Witness ==
    /\ op = "list_for_job"
    /\ pc = "done"
    /\ calls[1].outcome.ok
    /\ ~HasDefaultPlan
    /\ Get(StagesJob, "interviewPlanIds", <<>>) = <<"plan-2", "plan-3">>
    /\ Len(calls) = 2
    /\ calls[2].data["interviewPlanId"] = "plan-2"
    /\ Len(ret.value) >= 2

-----------------------------------------------------------------------------
(* C26 *)

\* what file.info returned as results
FileInfo == Get(BodyOf(1), "results", JObj(EmptyDict))

\* the response of file.info carries a URL
CarriesUrl ==
    /\ IsDict(FileInfo)
    /\ Truthy(Get(FileInfo.dict, "url", ""))

\* the content-disposition header of the GET's response, <<>> when absent
Disposition == Get(calls[2].resp.headers, "content-disposition", <<>>)

\* the header names a file: it has a filename parameter
NamesFile == \E i \in 1..Len(Disposition) : Disposition[i] = "filename="

\* the file name of the header: the value of its filename parameter, without
\* the quotes around it
NamedFile ==
    LET i == CHOOSE i \in 1..Len(Disposition) : Disposition[i] = "filename="
    IN  IF Disposition[i + 1] = "\"" THEN Disposition[i + 2]
        ELSE Disposition[i + 1]

\* C26: files.download(handle) issues exactly one file.info request and only
\* afterwards one GET to the URL that request returned; when the response
\* carries no URL it fails with the not-found error and no GET is issued; the
\* file name returned is the one in the content-disposition header when
\* present and the generic default name otherwise.
C26_DownloadProtocol ==
    op = "download" =>
        /\ Len(calls) \in {1, 2}
        /\ calls[1].endpoint = "file.info"
        /\ calls[1].data = [fileHandle |-> args.file_handle]
        /\ Len(calls) = 2 =>
              /\ calls[2].endpoint = "GET"
              /\ CarriesUrl
              /\ calls[2].data = [url |-> FileInfo.dict["url"]]
        /\ (calls[1].outcome.ok /\ ~CarriesUrl) =>
              /\ Len(calls) = 1
              /\ pc = "raised"
              /\ error.type = "AshbyNotFoundError"
        /\ pc = "done" =>
              /\ Len(calls) = 2
              /\ ret.value.filename
                    = IF NamesFile THEN NamedFile ELSE "downloaded_file"

-----------------------------------------------------------------------------
(* C27 *)

\* search was called with a criterion
HasCriterion == Truthy(args.email) \/ Truthy(args.name)

\* the results of the one response of search
Found == Get(BodyOf(1), "results", <<>>)

\* C27: candidates.search issues exactly one candidate.search request and
\* returns only the mapped results of that response, also when the response
\* declares moreDataAvailable=true with a nextCursor: search never follows a
\* cursor.
C27_SearchIsOnePage ==
    (op = "search" /\ HasCriterion) =>
        /\ Len(calls) = 1
        /\ calls[1].endpoint = "candidate.search"
        /\ "cursor" \notin DOMAIN calls[1].data
        /\ pc = "done" =>
              /\ Len(ret.value) = Len(Found)
              /\ \A i \in 1..Len(Found) :
                    /\ ret.value[i].raw_data = Found[i]
                    /\ ret.value[i].id = Get(Found[i], "id", "")

\* a search returned the results of a response that declared more data and
\* carried a cursor
C27_Witness ==
    /\ op = "search"
    /\ pc = "done"
    /\ Len(calls) = 1
    /\ Get(BodyOf(1), "moreDataAvailable", FALSE) = TRUE
    /\ Truthy(Get(BodyOf(1), "nextCursor", None))
    /\ Len(ret.value) >= 1

-----------------------------------------------------------------------------
(* C30 *)

\* the positions in the log of the jobPosting.info requests
InfoRequests ==
    {i \in 1..Len(calls) : calls[i].endpoint = "jobPosting.info"}

\* get_for_job received its listing and went past its selection
Selected ==
    /\ op = "get_for_job"
    /\ pc \in {"done", "raised"}
    /\ Len(calls) >= 1 /\ calls[1].outcome.ok

\* C30: get_for_job(job_id, ...) either returns None after issuing no
\* jobPosting.info request, exactly when no listed posting has jobId equal to
\* job_id, or issues exactly one jobPosting.info request whose id is the id of
\* a listed posting with jobId equal to job_id and returns the posting mapped
\* from that response.
C30_NoneOrOneFetch ==
    /\ op = "get_for_job" => Cardinality(InfoRequests) <= 1
    /\ Selected =>
          IF OfJob = {}
          THEN /\ InfoRequests = {}
               /\ pc = "done"
               /\ ret = Return(None)
          ELSE /\ InfoRequests = {Len(calls)}
               /\ \E i \in OfJob :
                     calls[Len(calls)].data = [jobPostingId |-> Listing[i].id]
               /\ pc = "done" =>
                     /\ calls[Len(calls)].outcome.ok
                     /\ ret = Return(JobPostingFromDict(
                                  Get(BodyOf(Len(calls)), "results",
                                      EmptyDict)))

\* None was returned for a listing that holds postings, all of another job
C30_Witness ==
    /\ Selected
    /\ pc = "done"
    /\ Len(Listing) >= 1
    /\ OfJob = {}
    /\ InfoRequests = {}
    /\ ret = Return(None)

\* a posting of the job was fetched from a listing that also holds a posting
\* of another job, and returned
C30_WitnessFetched ==
    /\ Selected
    /\ pc = "done"
    /\ OfJob # {}
    /\ Cardinality(OfJob) < Len(Listing)
    /\ InfoRequests = {2}
    /\ "results" \in DOMAIN BodyOf(2)
    /\ ret = Return(JobPostingFromDict(BodyOf(2)["results"]))

====
